---- MODULE Spec2Model ----
(***************************************************************************)
(* Model of the procedural mesh generators of xbcsmith/antares:            *)
(*   examples/gen_detailed_meshes.py  segmented primitive builders         *)
(*   examples/gen_dire_wolves.py      parametric wolf composer             *)
(*   examples/gen_monsters2.py        box/quad/tri monsters, write_ron     *)
(*   examples/generate_characters.py  character part functions, write_ron *)
(*                                                                         *)
(* Numbers.  The Python code computes with floats.  The model computes in  *)
(* fixed point with integers:                                              *)
(*   - lengths of the primitive builders are integers (model units);       *)
(*   - sines and cosines are integers scaled by TrigScale, taken from a    *)
(*     table in steps of 3 degrees (exact for every segment count that     *)
(*     divides 120, which covers all counts the bounds allow);             *)
(*   - ring coordinates are therefore scaled by TrigScale, spheroid        *)
(*     coordinates by TrigScale^2;                                         *)
(*   - colours are in hundredths; the wolf's scale factors are in          *)
(*     hundredths and its coefficients in thousandths, so its coordinates *)
(*     are in units of 1/10^7; character coordinates are in hundredths    *)
(*     and monster coordinates in thousandths.                            *)
(* A mesh text block is modelled by the record of the fields it prints.    *)
(***************************************************************************)
EXTENDS Integers, Sequences, FiniteSets, TLC

VARIABLES
    BOX_I,      \* module-level index table of gen_dire_wolves / gen_monsters2
    palette,    \* module-level colour lists of generate_characters.py (C)
    call,       \* the last builder / part / composer call: [fn, args]
    mesh,       \* mesh block returned by the last primitive builder call
    meshes,     \* mesh list returned by the last part function or composer
    files,      \* files written under OUT: filename -> content record
    snap,       \* observer: an earlier call with its result (determinism)
    out,        \* what the last run of a script printed or returned
    pc          \* generator runs: <<loop iterations done by generate_characters,
                \* build_* calls done by gen_monsters2>>

vars == <<BOX_I, palette, call, mesh, meshes, files, snap, out, pc>>

(***************************************************************************)
(* Bounds of the model.                                                    *)
(***************************************************************************)
MaxSeg == 4          \* segment counts 1..MaxSeg

TrigScale == 10 * 100

Segs == 1..MaxSeg
Radii == {1, 2}
Heights == {2}
Centres == {<<0, 0, 0>>, <<1, -2, 3>>}

(***************************************************************************)
(* Loops.  "for i in range(n): lst.extend(F(i))" with len(F(i)) = w.       *)
(***************************************************************************)
Extend(n, w, F(_)) ==
    [k \in 1..(n * w) |-> F((k - 1) \div w)[((k - 1) % w) + 1]]

\* "for i in range(n): lst.append(F(i))"
Append_range(n, F(_)) ==
    [k \in 1..n |-> F(k - 1)]

(***************************************************************************)
(* math.sin / math.cos.  Angles are counted in steps of 3 degrees (pi/60). *)
(***************************************************************************)
SinQ ==
    <<0, 52, 105, 156, 208, 259, 309, 358, 407, 454, 500, 545, 588, 629, 669,
      707, 743, 777, 809, 839, 866, 891, 914, 934, 951, 966, 978, 988, 995,
      999, 1000>>

Sin3(a) ==
    LET r == a % 120
    IN  IF r <= 30 THEN SinQ[r + 1]
        ELSE IF r <= 60 THEN SinQ[(60 - r) + 1]
        ELSE IF r <= 90 THEN -SinQ[(r - 60) + 1]
        ELSE -SinQ[(120 - r) + 1]

Cos3(a) == Sin3(a + 30)

\* angle = (i / segments) * 2 * math.pi
Angle(i, segments) == (120 * i) \div segments

\* theta = (v / segments_v) * math.pi
Theta(v, segments_v) == (60 * v) \div segments_v

(***************************************************************************)
(* emit_mesh: the fields of the emitted mesh block.  "not normals" prints  *)
(* normals: None both for None and for the empty list; <<>> stands for it. *)
(***************************************************************************)
emit_mesh(name, verts, indices, color, normals) ==
    [name |-> name, indices |-> indices, color |-> color,
     normals |-> normals, vertices |-> verts]

(***************************************************************************)
(* gen_detailed_meshes.py: segmented primitive builders.  Indices are      *)
(* 0-based as in the source; vertex k of the source is verts[k + 1].       *)
(***************************************************************************)
\* mutant: the angle counter is kept between calls and starts where the
\* previous builder left off
ring_keeps_counter(cx, y, cz, radius, segments) ==
    Append_range(segments, LAMBDA i :
        <<cx * TrigScale + radius * Cos3(Angle(i + Len(mesh.vertices), segments)),
          y * TrigScale,
          cz * TrigScale + radius * Sin3(Angle(i + Len(mesh.vertices), segments))>>)

\* one ring of `segments` vertices at height y
ring(cx, y, cz, radius, segments) ==
    Append_range(segments, LAMBDA i :
        <<cx * TrigScale + radius * Cos3(Angle(i, segments)),
          y * TrigScale,
          cz * TrigScale + radius * Sin3(Angle(i, segments))>>)

cylinder_verts(cx, cy, cz, radius, height, segments) ==
    <<  <<cx * TrigScale, cy * TrigScale, cz * TrigScale>>  >>
    \o ring(cx, cy, cz, radius, segments)
    \o ring(cx, cy + height, cz, radius, segments)
    \o <<  <<cx * TrigScale, (cy + height) * TrigScale, cz * TrigScale>>  >>

cylinder_bottom_cap(segments) ==
    Extend(segments, 3, LAMBDA i : <<0, i + 1, ((i + 1) % segments) + 1>>)

\* mutant: the ring neighbour taken without wrapping round
cylinder_sides_no_wrap(segments) ==
    Extend(segments, 6, LAMBDA i :
        LET bottom1 == i + 1
            bottom2 == (i + 1) + 1
            top1 == i + 1 + segments
            top2 == (i + 1) + 1 + segments
        IN  <<bottom1, bottom2, top1, bottom2, top2, top1>>)

cylinder_sides(segments) ==
    Extend(segments, 6, LAMBDA i :
        LET bottom1 == i + 1
            bottom2 == ((i + 1) % segments) + 1
            top1 == i + 1 + segments
            top2 == ((i + 1) % segments) + 1 + segments
        IN  <<bottom1, bottom2, top1, bottom2, top2, top1>>)

\* mutant: the top-cap centre taken one past the end of the vertex list
cylinder_top_cap_past_end(verts, segments) ==
    LET top_center == Len(verts)
    IN  Extend(segments, 3, LAMBDA i :
            <<top_center, ((i + 1) % segments) + 1 + segments, i + 1 + segments>>)

cylinder_top_cap(verts, segments) ==
    LET top_center == Len(verts) - 1
    IN  Extend(segments, 3, LAMBDA i :
            <<top_center, ((i + 1) % segments) + 1 + segments, i + 1 + segments>>)

cylinder_indices(verts, segments) ==
    cylinder_bottom_cap(segments) \o cylinder_sides(segments)
        \o cylinder_top_cap(verts, segments)

cylinder(name, cx, cy, cz, radius, height, color, segments) ==
    LET verts == cylinder_verts(cx, cy, cz, radius, height, segments)
    IN  emit_mesh(name, verts, cylinder_indices(verts, segments), color, <<>>)

tapered_rings(cx, cy, cz, radius_bottom, radius_top, height, segments) ==
    ring(cx, cy, cz, radius_bottom, segments)
    \o ring(cx, cy + height, cz, radius_top, segments)

\* mutant: the second triangle of a side quad taken as (bottom2, top1, top2)
tapered_sides_second_reversed(segments) ==
    Extend(segments, 6, LAMBDA i :
        LET bottom1 == i
            bottom2 == (i + 1) % segments
            top1 == i + segments
            top2 == ((i + 1) % segments) + segments
        IN  <<bottom1, bottom2, top1, bottom2, top1, top2>>)

tapered_sides(segments) ==
    Extend(segments, 6, LAMBDA i :
        LET bottom1 == i
            bottom2 == (i + 1) % segments
            top1 == i + segments
            top2 == ((i + 1) % segments) + segments
        IN  <<bottom1, bottom2, top1, bottom2, top2, top1>>)

tapered_bottom_cap(center_bottom, segments) ==
    Extend(segments, 3, LAMBDA i : <<center_bottom, (i + 1) % segments, i>>)

\* mutant: the top fan walks its ring the way the bottom fan does
tapered_top_cap_like_bottom(center_top, segments) ==
    Extend(segments, 3, LAMBDA i :
        <<center_top, ((i + 1) % segments) + segments, i + segments>>)

tapered_top_cap(center_top, segments) ==
    Extend(segments, 3, LAMBDA i :
        <<center_top, i + segments, ((i + 1) % segments) + segments>>)

tapered_cylinder(name, cx, cy, cz, radius_bottom, radius_top, height, color, segments) ==
    LET verts0 == tapered_rings(cx, cy, cz, radius_bottom, radius_top, height, segments)
        center_bottom == Len(verts0)
        verts1 == Append(verts0, <<cx * TrigScale, cy * TrigScale, cz * TrigScale>>)
        center_top == Len(verts1)
        verts2 == Append(verts1,
                     <<cx * TrigScale, (cy + height) * TrigScale, cz * TrigScale>>)
    IN  emit_mesh(name, verts2,
                  tapered_sides(segments)
                      \o tapered_bottom_cap(center_bottom, segments)
                      \o tapered_top_cap(center_top, segments),
                  color, <<>>)

\* the exception "theta = (v / segments_v) * math.pi" raises on the first row
\* when segments_v is 0: the call returns no mesh text
ZeroDivisionError == emit_mesh("ZeroDivisionError", <<>>, <<>>, <<>>, <<>>)

\* mutant: theta stops one step short of pi, the last row is a ring
sphere_section_verts_open_south(cx, cy, cz, radius, segments_h, segments_v) ==
    Extend(segments_v + 1, segments_h, LAMBDA v :
        Append_range(segments_h, LAMBDA h :
            LET theta == Theta(v, segments_v + 1)
                phi == Angle(h, segments_h)
            IN  <<cx * TrigScale * TrigScale + radius * Sin3(theta) * Cos3(phi),
                  cy * TrigScale * TrigScale + radius * Cos3(theta) * TrigScale,
                  cz * TrigScale * TrigScale + radius * Sin3(theta) * Sin3(phi)>>))

sphere_section_verts(cx, cy, cz, radius, segments_h, segments_v) ==
    Extend(segments_v + 1, segments_h, LAMBDA v :
        Append_range(segments_h, LAMBDA h :
            LET theta == Theta(v, segments_v)
                phi == Angle(h, segments_h)
            IN  <<cx * TrigScale * TrigScale + radius * Sin3(theta) * Cos3(phi),
                  cy * TrigScale * TrigScale + radius * Cos3(theta) * TrigScale,
                  cz * TrigScale * TrigScale + radius * Sin3(theta) * Sin3(phi)>>))

\* mutant: rows and columns exchanged in the index arithmetic
sphere_section_indices_transposed(segments_h, segments_v) ==
    Extend(segments_v * segments_h, 6, LAMBDA k :
        LET v == k \div segments_h
            h == k % segments_h
            i1 == h * segments_v + v
            i2 == ((h + 1) % segments_h) * segments_v + v
            i3 == h * segments_v + (v + 1)
            i4 == ((h + 1) % segments_h) * segments_v + (v + 1)
        IN  <<i1, i2, i3, i2, i4, i3>>)

sphere_section_indices(segments_h, segments_v) ==
    Extend(segments_v * segments_h, 6, LAMBDA k :
        LET v == k \div segments_h
            h == k % segments_h
            i1 == v * segments_h + h
            i2 == v * segments_h + ((h + 1) % segments_h)
            i3 == (v + 1) * segments_h + h
            i4 == (v + 1) * segments_h + ((h + 1) % segments_h)
        IN  <<i1, i2, i3, i2, i4, i3>>)

sphere_section(name, cx, cy, cz, radius, color, segments_h, segments_v) ==
    IF segments_v = 0 THEN ZeroDivisionError
    ELSE emit_mesh(name,
                   sphere_section_verts(cx, cy, cz, radius, segments_h, segments_v),
                   sphere_section_indices(segments_h, segments_v), color, <<>>)

\* mutant: the vertical radius applied to the z axis and the depth radius to y
ellipsoid_verts_axes_swapped(cx, cy, cz, rx, ry, rz, segments_h, segments_v) ==
    Extend(segments_v + 1, segments_h, LAMBDA v :
        Append_range(segments_h, LAMBDA h :
            LET theta == Theta(v, segments_v)
                phi == Angle(h, segments_h)
            IN  <<cx * TrigScale * TrigScale + rx * Sin3(theta) * Cos3(phi),
                  cy * TrigScale * TrigScale + rz * Sin3(theta) * Sin3(phi),
                  cz * TrigScale * TrigScale + ry * Cos3(theta) * TrigScale>>))

ellipsoid_verts(cx, cy, cz, rx, ry, rz, segments_h, segments_v) ==
    Extend(segments_v + 1, segments_h, LAMBDA v :
        Append_range(segments_h, LAMBDA h :
            LET theta == Theta(v, segments_v)
                phi == Angle(h, segments_h)
            IN  <<cx * TrigScale * TrigScale + rx * Sin3(theta) * Cos3(phi),
                  cy * TrigScale * TrigScale + ry * Cos3(theta) * TrigScale,
                  cz * TrigScale * TrigScale + rz * Sin3(theta) * Sin3(phi)>>))

ellipsoid_indices(segments_h, segments_v) ==
    Extend(segments_v * segments_h, 6, LAMBDA k :
        LET v == k \div segments_h
            h == k % segments_h
            i1 == v * segments_h + h
            i2 == v * segments_h + ((h + 1) % segments_h)
            i3 == (v + 1) * segments_h + h
            i4 == (v + 1) * segments_h + ((h + 1) % segments_h)
        IN  <<i1, i2, i3, i2, i4, i3>>)

ellipsoid(name, cx, cy, cz, rx, ry, rz, color, segments_h, segments_v) ==
    IF segments_v = 0 THEN ZeroDivisionError
    ELSE emit_mesh(name,
                   ellipsoid_verts(cx, cy, cz, rx, ry, rz, segments_h, segments_v),
                   ellipsoid_indices(segments_h, segments_v), color, <<>>)

cone_base_verts(cx, cy, cz, radius, segments) ==
    <<  <<cx * TrigScale, cy * TrigScale, cz * TrigScale>>  >>
    \o ring(cx, cy, cz, radius, segments)

\* mutant: the base fan wound like the sides
cone_base_cap_like_sides(segments) ==
    Extend(segments, 3, LAMBDA i : <<0, i + 1, ((i + 1) % segments) + 1>>)

cone_base_cap(segments) ==
    Extend(segments, 3, LAMBDA i : <<0, ((i + 1) % segments) + 1, i + 1>>)

\* mutant: the sides fan from the base centre instead of the apex
cone_sides_from_centre(apex, segments) ==
    Extend(segments, 3, LAMBDA i : <<i + 1, ((i + 1) % segments) + 1, 0>>)

cone_sides(apex, segments) ==
    Extend(segments, 3, LAMBDA i : <<i + 1, ((i + 1) % segments) + 1, apex>>)

cone_mesh(name, cx, cy, cz, radius, height, color, segments) ==
    LET verts0 == cone_base_verts(cx, cy, cz, radius, segments)
        apex == Len(verts0)
        verts == Append(verts0,
                    <<cx * TrigScale, (cy + height) * TrigScale, cz * TrigScale>>)
    IN  emit_mesh(name, verts,
                  cone_base_cap(segments) \o cone_sides(apex, segments),
                  color, <<>>)

(***************************************************************************)
(* gen_dire_wolves.py / gen_monsters2.py: box, quad and triangle helpers.  *)
(***************************************************************************)
\* mutant: the second triangle of the first face taken as (2, 3, 1)
BOX_I_first_face_no_diagonal ==
    <<0,1,2,2,3,1, 1,5,6,6,2,1, 7,6,5,5,4,7,
      4,0,3,3,7,4, 4,5,1,1,0,4, 3,2,6,6,7,3>>

BOX_I_init ==
    <<0,1,2,2,3,0, 1,5,6,6,2,1, 7,6,5,5,4,7,
      4,0,3,3,7,4, 4,5,1,1,0,4, 3,2,6,6,7,3>>

box_v(x0, y0, z0, x1, y1, z1) ==
    << <<x0,y0,z0>>, <<x1,y0,z0>>, <<x1,y1,z0>>, <<x0,y1,z0>>,
       <<x0,y0,z1>>, <<x1,y0,z1>>, <<x1,y1,z1>>, <<x0,y1,z1>> >>

quad_v(v0, v1, v2, v3) == <<v0, v1, v2, v3>>
quad_i == <<0,1,2,0,2,3>>
tri_v(v0, v1, v2) == <<v0, v1, v2>>
tri_i == <<0,1,2>>
norm3(nx, ny, nz, n) == [k \in 1..n |-> <<nx, ny, nz>>]

\* list(BOX_I): a copy of the table as it is at the time of the call
box_mesh(name, x0, y0, z0, x1, y1, z1, color) ==
    emit_mesh(name, box_v(x0, y0, z0, x1, y1, z1), BOX_I, color, <<>>)

quad_mesh(name, v0, v1, v2, v3, color, nx, ny, nz) ==
    emit_mesh(name, quad_v(v0, v1, v2, v3), quad_i, color, norm3(nx, ny, nz, 4))

tri_mesh(name, v0, v1, v2, color, nx, ny, nz) ==
    emit_mesh(name, tri_v(v0, v1, v2), tri_i, color, norm3(nx, ny, nz, 3))

(***************************************************************************)
(* Colours: c(r, g, b, a = 1.0), in hundredths.                            *)
(***************************************************************************)
c3(r, g, b) == <<r, g, b, 100>>

WOLF_FUR == c3(60, 56, 50)
WOLF_DARK == c3(26, 24, 20)

(***************************************************************************)
(* gen_dire_wolves.py: build_wolf_base.  Scale factors are in hundredths   *)
(* (body_scale 1.2 is 120), the coefficients of the source in thousandths, *)
(* so every coordinate is in units of 1/10^7:                              *)
(*   k*bk*bs  stands for  (k/1000) * bulk_scale * body_scale               *)
(*   k*bs*ScaleOne  for   (k/1000) * body_scale                            *)
(***************************************************************************)
ScaleOne == 100

SCAR_COLOR == c3(75, 50, 45)

\* meshes.extend([...])
\* mutant: the list is replaced instead of extended
extend_replaces(lst, more) == more

extend(lst, more) == lst \o more

wolf_base(body_color, dark_color, eye_color, bs, bk, sl, eh) ==
    LET X(k) == k * bk * bs          \* k/1000 * bk * bs
        Y(k) == k * bs * ScaleOne    \* k/1000 * bs
        Z(k) == k * sl * bs          \* k/1000 * sl * bs
        E(k0, k1) == (k0 * ScaleOne + k1 * eh) * bs   \* (k0 + k1*eh) * bs
    IN  << box_mesh("body", X(-280), Y(-50), Y(-550), X(280), Y(380), Y(220),
                    body_color),
           box_mesh("chest", X(-220), Y(120), Y(-580), X(220), Y(420), Y(-280),
                    body_color),
           box_mesh("head", X(-180), Y(-20), Y(-760), X(180), Y(320), Y(-520),
                    body_color),
           box_mesh("snout", X(-100), Y(-60), Z(-900), X(100), Y(160), Z(-740),
                    dark_color),
           box_mesh("nostrils", X(-50), Y(-40), Z(-905), X(50), Y(40), Z(-895),
                    c3(14, 10, 8)),
           tri_mesh("left_ear",
                    <<X(-150), Y(300), Y(-640)>>,
                    <<X(-60), Y(300), Y(-640)>>,
                    <<X(-100), E(300, 190), Y(-640)>>,
                    dark_color, 0, 0, -1),
           tri_mesh("right_ear",
                    <<X(60), Y(300), Y(-640)>>,
                    <<X(150), Y(300), Y(-640)>>,
                    <<X(100), E(300, 190), Y(-640)>>,
                    dark_color, 0, 0, -1),
           quad_mesh("left_eye",
                     <<X(-140), Y(120), Y(-752)>>,
                     <<X(-80), Y(120), Y(-752)>>,
                     <<X(-140), Y(200), Y(-752)>>,
                     <<X(-80), Y(200), Y(-752)>>,
                     eye_color, 0, 0, -1),
           quad_mesh("right_eye",
                     <<X(80), Y(120), Y(-752)>>,
                     <<X(140), Y(120), Y(-752)>>,
                     <<X(80), Y(200), Y(-752)>>,
                     <<X(140), Y(200), Y(-752)>>,
                     eye_color, 0, 0, -1),
           box_mesh("front_left", X(-280), Y(-500), Y(-440),
                    X(-180), Y(-60), Y(-340), body_color),
           box_mesh("front_right", X(180), Y(-500), Y(-440),
                    X(280), Y(-60), Y(-340), body_color),
           box_mesh("hind_left", X(-280), Y(-500), Y(60),
                    X(-180), Y(-60), Y(180), body_color),
           box_mesh("hind_right", X(180), Y(-500), Y(60),
                    X(280), Y(-60), Y(180), body_color),
           box_mesh("tail", X(-60), Y(-20), Y(220), X(60), Y(280), Y(540),
                    body_color),
           box_mesh("tail_tip", X(-40), Y(260), Y(460), X(40), Y(420), Y(580),
                    dark_color) >>

wolf_scars(bs, bk, eh) ==
    LET X(k) == k * bk * bs
        Y(k) == k * bs * ScaleOne
        H(k) == k * eh * bs          \* k/1000 * eh * bs
    IN  << quad_mesh("scar_face",
                     <<X(-180), Y(80), Y(-751)>>,
                     <<X(-20), Y(240), Y(-751)>>,
                     <<X(-160), Y(100), Y(-751)>>,
                     <<X(0), Y(260), Y(-751)>>,
                     SCAR_COLOR, 0, 0, -1),
           tri_mesh("ear_notch",
                    <<X(-120), H(420), Y(-645)>>,
                    <<X(-80), H(420), Y(-645)>>,
                    <<X(-100), H(380), Y(-645)>>,
                    c3(20, 16, 14), 0, 0, -1),
           quad_mesh("scar_shoulder",
                     <<X(-240), Y(280), Y(20)>>,
                     <<X(-140), Y(320), Y(20)>>,
                     <<X(-220), Y(300), Y(20)>>,
                     <<X(-120), Y(340), Y(20)>>,
                     SCAR_COLOR, 0, 0, 1) >>

wolf_spine_ridge(dark_color, bs, bk) ==
    LET X(k) == k * bk * bs
        Y(k) == k * bs * ScaleOne
    IN  << tri_mesh("spine_ridge_0",
                    <<X(-40), Y(380), Y(-200)>>,
                    <<X(40), Y(380), Y(-200)>>,
                    <<X(0), Y(500), Y(-220)>>,
                    dark_color, 0, 1, 1),
           tri_mesh("spine_ridge_1",
                    <<X(-40), Y(380), Y(0)>>,
                    <<X(40), Y(380), Y(0)>>,
                    <<X(0), Y(480), Y(-20)>>,
                    dark_color, 0, 1, 1) >>

\* mutant: the ridge is added from body_scale 1.0 on
has_spine_ridge_from_one(body_scale) == body_scale >= ScaleOne

\* if body_scale > 1.0:
has_spine_ridge(body_scale) == body_scale > ScaleOne

build_wolf_base(body_color, dark_color, eye_color, body_scale, bulk_scale, snout_length, ear_height, include_scars) ==
    LET meshes0 == wolf_base(body_color, dark_color, eye_color, body_scale,
                             bulk_scale, snout_length, ear_height)
        meshes1 == IF include_scars
                   THEN extend(meshes0, wolf_scars(body_scale, bulk_scale, ear_height))
                   ELSE meshes0
        meshes2 == IF has_spine_ridge(body_scale)
                   THEN extend(meshes1, wolf_spine_ridge(dark_color, body_scale, bulk_scale))
                   ELSE meshes1
    IN  meshes2

(***************************************************************************)
(* State machine of the primitive builders: each step is one call of a     *)
(* builder with arguments drawn from the bounded sets.                     *)
(***************************************************************************)
\* the entries of the palette C that the characters below use
C(key) ==
    CASE key = "skin_dwarf" -> <<80, 65, 55, 100>>
      [] key = "skin_elf_pale" -> <<96, 92, 88, 100>>
      [] key = "scales_bronze" -> <<72, 52, 25, 100>>
      [] key = "hair_red" -> <<70, 20, 10, 100>>
      [] key = "hair_platinum" -> <<95, 95, 98, 100>>
      [] key = "leather_brown" -> <<48, 35, 22, 100>>
      [] key = "leather_green" -> <<28, 42, 22, 100>>
      [] key = "chainmail" -> <<58, 60, 62, 100>>
      [] key = "fur_brown" -> <<50, 38, 24, 100>>
      [] key = "cloth_crimson" -> <<72, 12, 12, 100>>
      [] key = "iron" -> <<52, 52, 55, 100>>
      [] key = "skin_tan" -> <<78, 63, 50, 100>>
      [] key = "hair_chestnut" -> <<50, 28, 14, 100>>
      [] key = "leather_dark" -> <<28, 22, 16, 100>>
      [] key = "cloth_dark" -> <<14, 12, 18, 100>>
      [] key = "wood_light" -> <<62, 48, 30, 100>>
      [] key = "wood_dark" -> <<32, 22, 12, 100>>
      [] key = "horn_dark" -> <<22, 18, 14, 100>>
      [] key = "orb_purple" -> <<65, 35, 90, 85>>
      [] key = "glowing_red" -> <<100, 30, 20, 100>>

\* the colour lists of C that callers hand to the part functions by reference
PaletteKeys == <<"iron", "orb_purple">>

palette_init == [k \in 1..Len(PaletteKeys) |-> C(PaletteKeys[k])]

\* mutant: color[3] = alpha, written into the caller's list
hood_color_in_place(color, alpha) ==
    <<color[1], color[2], color[3], alpha>>

\* hood: c = list(color[:3]) + [alpha] is a new list; the caller's color
\* list after the call
hood_color_after(color, alpha) == color

\* box_mesh: emit(name, box_v(...), list(BOX_I), color) hands emit a copy,
\* and emit only reads its lists; the table after the call
BOX_I_after_box_mesh(table) == table

NoMesh == emit_mesh("", <<>>, <<>>, <<>>, <<>>)
NoCall == [fn |-> "none", args |-> <<>>]

Init ==
    /\ BOX_I = BOX_I_init
    /\ palette = palette_init
    /\ call = NoCall
    /\ mesh = NoMesh
    /\ meshes = <<>>
    /\ files = <<>>
    /\ snap = [call |-> NoCall, mesh |-> NoMesh]
    /\ out = <<>>
    /\ pc = <<0, 0>>

\* A builder has only local state (verts, indices): a call changes nothing
\* but what it returns.
Call_cylinder(Cs, R, S) ==
    \E ctr \in Cs, radius \in R, height \in Heights, segments \in S :
        /\ call' = [fn |-> "cylinder",
                     args |-> <<ctr, radius, height, segments>>]
        /\ mesh' = cylinder("cyl", ctr[1], ctr[2], ctr[3], radius, height,
                    WOLF_FUR, segments)
        /\ UNCHANGED <<BOX_I, palette, meshes, files, snap, out, pc>>

Call_tapered_cylinder(Cs, R, S) ==
    \E ctr \in Cs, radius_bottom \in R, radius_top \in 0..1,
       height \in Heights, segments \in S :
        /\ call' = [fn |-> "tapered_cylinder",
                     args |-> <<ctr, radius_bottom, radius_top, height, segments>>]
        /\ mesh' = tapered_cylinder("taper", ctr[1], ctr[2], ctr[3], radius_bottom,
                    radius_top, height, WOLF_DARK, segments)
        /\ UNCHANGED <<BOX_I, palette, meshes, files, snap, out, pc>>

Call_sphere_section(Cs, R, S) ==
    \E ctr \in Cs, radius \in R, segments_h \in S, segments_v \in S :
        /\ call' = [fn |-> "sphere_section",
                     args |-> <<ctr, radius, segments_h, segments_v>>]
        /\ mesh' = sphere_section("sphere", ctr[1], ctr[2], ctr[3], radius,
                    WOLF_FUR, segments_h, segments_v)
        /\ UNCHANGED <<BOX_I, palette, meshes, files, snap, out, pc>>

Call_ellipsoid(Cs, R, S) ==
    \E ctr \in Cs, r \in R, stretch \in 0..1, segments_h \in S, segments_v \in S :
        /\ call' = [fn |-> "ellipsoid",
                     args |-> <<ctr, r, r + stretch, r + 2 * stretch,
                                segments_h, segments_v>>]
        /\ mesh' = ellipsoid("ellipsoid", ctr[1], ctr[2], ctr[3],
                    r, r + stretch, r + 2 * stretch,
                    WOLF_FUR, segments_h, segments_v)
        /\ UNCHANGED <<BOX_I, palette, meshes, files, snap, out, pc>>

Call_cone_mesh(Cs, R, S) ==
    \E ctr \in Cs, radius \in R, height \in Heights, segments \in S :
        /\ call' = [fn |-> "cone_mesh",
                     args |-> <<ctr, radius, height, segments>>]
        /\ mesh' = cone_mesh("cone", ctr[1], ctr[2], ctr[3], radius, height,
                    WOLF_DARK, segments)
        /\ UNCHANGED <<BOX_I, palette, meshes, files, snap, out, pc>>

Call_box_mesh(Cs, R) ==
    \E ctr \in Cs, dx \in {0} \cup R, dy \in R :
        /\ call' = [fn |-> "box_mesh",
                     args |-> <<ctr[1], ctr[2], ctr[3],
                                ctr[1] + dx, ctr[2] + dy, ctr[3] + 1>>]
        /\ mesh' = box_mesh("box", ctr[1], ctr[2], ctr[3],
                    ctr[1] + dx, ctr[2] + dy, ctr[3] + 1, WOLF_FUR)
        /\ BOX_I' = BOX_I_after_box_mesh(BOX_I)
        /\ UNCHANGED <<palette, meshes, files, snap, out, pc>>

Next ==
    \/ Call_cylinder(Centres, Radii, Segs)
    \/ Call_tapered_cylinder(Centres, Radii, Segs)
    \/ Call_sphere_section(Centres, Radii, Segs)
    \/ Call_ellipsoid(Centres, Radii, Segs)
    \/ Call_cone_mesh(Centres, Radii, Segs)
    \/ Call_box_mesh(Centres, Radii)

Spec == Init /\ [][Next]_vars

(***************************************************************************)
(* generate_characters.py: helpers and part functions.  Coordinates and    *)
(* colours are in hundredths.  A part function returns the list of the     *)
(* mesh blocks it joins with "\n".                                         *)
(***************************************************************************)
\* box(x0,y0,z0, x1,y1,z1) returns (verts, idx)
box(x0, y0, z0, x1, y1, z1) ==
    << << <<x0,y0,z1>>, <<x1,y0,z1>>, <<x1,y1,z1>>, <<x0,y1,z1>>,
          <<x0,y0,z0>>, <<x1,y0,z0>>, <<x1,y1,z0>>, <<x0,y1,z0>> >>,
       <<0,1,2,2,3,0, 1,5,6,6,2,1, 7,6,5,5,4,7,
         4,0,3,3,7,4, 4,5,1,1,0,4, 3,2,6,6,7,3>> >>

\* tri(v0,v1,v2, normal) returns (verts, normals, idx)
tri(v0, v1, v2, normal) ==
    LET n == IF normal = <<>> THEN <<0, 0, 1>> ELSE normal
    IN  << <<v0, v1, v2>>, <<n, n, n>>, <<0, 1, 2>> >>

\* mutant: one normal for each vertex of a triangle, three for the four corners
quad_flat_three_normals(v0, v1, v2, v3, normal) ==
    LET n == IF normal = <<>> THEN <<0, 0, 1>> ELSE normal
    IN  << <<v0, v1, v2, v3>>, <<n, n, n>>, <<0, 1, 3, 0, 3, 2>> >>

\* quad_flat(v0,v1,v2,v3, normal) returns (verts, normals, idx)
quad_flat(v0, v1, v2, v3, normal) ==
    LET n == IF normal = <<>> THEN <<0, 0, 1>> ELSE normal
    IN  << <<v0, v1, v2, v3>>, <<n, n, n, n>>, <<0, 1, 3, 0, 3, 2>> >>

mesh_block(name, verts, indices, color, normals) ==
    [name |-> name, indices |-> indices, color |-> color,
     normals |-> normals, vertices |-> verts]

\* a box written as one mesh block
box_block(name, b, color) == mesh_block(name, b[1], b[2], color, <<>>)
\* a tri / quad_flat result written as one mesh block
flat_block(name, f, color) == mesh_block(name, f[1], f[3], color, f[2])

\* [idx + off for idx in raw]
offset_indices(raw, off) == [k \in 1..Len(raw) |-> raw[k] + off]

\* for side, sx in [("left", -1), ("right", 1)]
Sides == << <<"left", -1>>, <<"right", 1>> >>

\* list(color[:3]) + [alpha]
with_alpha(color, alpha) == <<color[1], color[2], color[3], alpha>>

legs(color, scale_y) ==
    LET spans == << <<"left", -15, -5>>, <<"right", 5, 15>> >>
    IN  Append_range(2, LAMBDA k :
            box_block(spans[k + 1][1] \o "_leg",
                      box(spans[k + 1][2], -scale_y, -10, spans[k + 1][3], 0, 5),
                      color))

torso(color, w, h) == << box_block("torso", box(-w, 0, -15, w, h, 12), color) >>

arms(color, reach) ==
    Append_range(2, LAMBDA k :
        LET sx == Sides[k + 1][2]
            x0 == IF sx < 0 THEN sx * reach ELSE sx * 27
            x1 == IF sx < 0 THEN sx * 27 ELSE sx * reach
        IN  box_block(Sides[k + 1][1] \o "_arm", box(x0, 10, -10, x1, 65, 5), color))

head(color, w, h) == << box_block("head", box(-w, 80, -17, w, 80 + h, 7), color) >>

hair_cap(color, extra_y) ==
    << box_block("hair", box(-18, 110, -18, 18, 114 + extra_y, 8), color) >>

beard(color, length) ==
    << flat_block("beard",
                  quad_flat(<<-13, 82, 7>>, <<13, 82, 7>>,
                            <<-13, 82 - length, 5>>, <<13, 82 - length, 5>>,
                            <<0, 0, 1>>),
                  color) >>

eyes(color) ==
    LET spans == << <<"left", -7>>, <<"right", 7>> >>
    IN  Append_range(2, LAMBDA k :
            LET sx == spans[k + 1][2]
            IN  box_block(spans[k + 1][1] \o "_eye",
                          box(sx - 4, 99, 7, sx + 4, 105, 9), color))

hood(color, alpha) ==
    << box_block("hood", box(-20, 108, -20, 20, 130, 10), with_alpha(color, alpha)) >>

shoulder_pads(color) ==
    Append_range(2, LAMBDA k :
        LET sx == Sides[k + 1][2]
            x0 == IF sx < 0 THEN sx * 44 ELSE sx * 27
            x1 == IF sx < 0 THEN sx * 27 ELSE sx * 44
        IN  box_block(Sides[k + 1][1] \o "_pauldron",
                      box(x0, 60, -12, x1, 82, 10), color))

side_sign(side) == IF side = "right" THEN 1 ELSE -1

weapon_sword(color, side) ==
    LET x == side_sign(side) * 52
    IN  << box_block("sword", box(x - 3, -20, -6, x + 3, 90, 0), color) >>

weapon_axe(color, side) ==
    LET x == side_sign(side) * 54
        shaft == box(x - 3, -20, -6, x + 3, 75, 0)
        head_b == box(x - 14, 65, -6, x + 14, 82, 2)
        off == Len(shaft[1])
        head_i_off == offset_indices(head_b[2], off)
    IN  << mesh_block("axe_shaft", shaft[1], shaft[2], color, <<>>),
           mesh_block("axe_head", head_b[1], head_i_off, color, <<>>) >>

weapon_bow(color) == << box_block("bow", box(48, 0, -6, 52, 100, -2), color) >>

weapon_staff(color, orb_color) ==
    LET orb == IF orb_color = <<>> THEN <<50, 80, 100, 85>> ELSE orb_color
        s == box(52, 0, -6, 56, 175, -2)
        o == box(44, 172, -10, 64, 192, 2)
        off == Len(s[1])
        oi == offset_indices(o[2], off)
    IN  << mesh_block("staff", s[1], s[2], color, <<>>),
           mesh_block("staff_orb", o[1], oi, orb, <<>>) >>

weapon_dagger(color, side) ==
    LET x == side_sign(side) * 52
    IN  << box_block("dagger", box(x - 2, 0, -4, x + 2, 38, 0), color) >>

quiver(color) == << box_block("quiver", box(-24, 30, -22, -10, 70, -14), color) >>

cloak(color, alpha) ==
    << flat_block("cloak",
                  quad_flat(<<-30, 75, -16>>, <<30, 75, -16>>,
                            <<-35, -20, -18>>, <<35, -20, -18>>, <<0, 0, -1>>),
                  with_alpha(color, alpha)) >>

horns_swept(color) ==
    Append_range(2, LAMBDA k :
        LET sx == Sides[k + 1][2]
        IN  flat_block(Sides[k + 1][1] \o "_horn",
                       tri(<<sx * 14, 118, -10>>, <<sx * 6, 112, -8>>,
                           <<sx * 30, 138, -20>>, <<0, 1, 0>>),
                       color))

horns_ram(color) ==
    Append_range(2, LAMBDA k :
        LET sx == Sides[k + 1][2]
        IN  flat_block(Sides[k + 1][1] \o "_horn",
                       tri(<<sx * 16, 114, -10>>, <<sx * 8, 110, -6>>,
                           <<sx * 28, 105, -24>>, <<0, 1, 0>>),
                       color))

pointed_ears(color) ==
    Append_range(2, LAMBDA k :
        LET sx == Sides[k + 1][2]
        IN  flat_block(Sides[k + 1][1] \o "_ear",
                       tri(<<sx * 17, 102, -8>>, <<sx * 17, 94, -8>>,
                           <<sx * 28, 98, -10>>, <<sx, 0, 0>>),
                       color))

tusks(color) ==
    Append_range(2, LAMBDA k :
        LET sx == Sides[k + 1][2]
        IN  flat_block(Sides[k + 1][1] \o "_tusk",
                       tri(<<sx * 6, 80, 7>>, <<sx * 2, 80, 7>>,
                           <<sx * 4, 72, 10>>, <<0, -1, 0>>),
                       color))

scales_overlay(color) ==
    LET rows == << <<"scale_row_0", 15>>, <<"scale_row_1", 35>>, <<"scale_row_2", 55>> >>
    IN  Append_range(3, LAMBDA i :
            LET y == rows[i + 1][2]
            IN  flat_block(rows[i + 1][1],
                           quad_flat(<<-26, y, 13>>, <<26, y, 13>>,
                                     <<-26, y + 6, 13>>, <<26, y + 6, 13>>,
                                     <<0, 0, 1>>),
                           color))

holy_symbol(color) ==
    LET cross == box(-3, 45, 13, 3, 68, 15)
        hbar == box(-9, 53, 13, 9, 60, 15)
        off == Len(cross[1])
        hbar_i == offset_indices(hbar[2], off)
    IN  << mesh_block("holy_cross_v", cross[1], cross[2], color, <<>>),
           mesh_block("holy_cross_h", hbar[1], hbar_i, color, <<>>) >>

aura_particles(color, alpha) ==
    LET positions == << <<"aura_0", -35, 55, 18>>, <<"aura_1", 30, 70, 18>>,
                        <<"aura_2", -10, 110, 16>> >>
    IN  Append_range(3, LAMBDA k :
            LET px == positions[k + 1][2]
                py == positions[k + 1][3]
                pz == positions[k + 1][4]
            IN  flat_block(positions[k + 1][1],
                           tri(<<px - 6, py, pz>>, <<px + 6, py, pz>>,
                               <<px, py + 12, pz>>, <<0, 0, 1>>),
                           with_alpha(color, alpha)))

warpaint(color) ==
    << flat_block("warpaint",
                  quad_flat(<<-15, 96, 7>>, <<15, 96, 7>>,
                            <<-15, 100, 7>>, <<15, 100, 7>>, <<0, 0, 1>>),
                  color) >>

fur_mantle(color) ==
    << box_block("fur_mantle", box(-35, 60, -16, 35, 82, 16), color) >>

crown_or_circlet(color) ==
    << box_block("circlet", box(-19, 112, -18, 19, 117, 8), color) >>

spellbook(color) ==
    << box_block("spellbook", box(-58, -5, -8, -42, 20, 8), color) >>

goggles(color) == << box_block("goggles", box(-14, 107, 7, 14, 114, 11), color) >>

wand(color, orb_color) ==
    LET orb == IF orb_color = <<>> THEN <<20, 10, 5, 100>> ELSE orb_color
        w == box(50, -5, -4, 54, 50, 0)
        o == box(46, 48, -6, 58, 60, 4)
        off == Len(w[1])
        oi == offset_indices(o[2], off)
    IN  << mesh_block("wand", w[1], w[2], color, <<>>),
           mesh_block("wand_orb", o[1], oi, orb, <<>>) >>

spectacles(color) ==
    << box_block("spectacles", box(-14, 98, 7, 14, 104, 10), color) >>

antler_crown(color) ==
    Extend(2, 2, LAMBDA k :
        LET sx == Sides[k + 1][2]
            shaft == box(sx * 6, 114, -10, sx * 10, 132, -6)
            tine == box(sx * 8, 126, -12, sx * 18, 130, -8)
            off == Len(shaft[1])
            tine_i == offset_indices(tine[2], off)
        IN  << mesh_block(Sides[k + 1][1] \o "_antler_shaft", shaft[1], shaft[2],
                          color, <<>>),
               mesh_block(Sides[k + 1][1] \o "_antler_tine", tine[1], tine_i,
                          color, <<>>) >>)

tattoo_marks(color) ==
    << flat_block("tattoos",
                  quad_flat(<<-12, 85, 7>>, <<12, 85, 7>>,
                            <<-10, 95, 7>>, <<10, 95, 7>>, <<0, 0, 1>>),
                  color) >>

pigtails(color) ==
    Append_range(2, LAMBDA k :
        LET sx == Sides[k + 1][2]
        IN  box_block(Sides[k + 1][1] \o "_pigtail",
                      box(sx * 16, 90, -14, sx * 22, 112, -8), color))

wizard_hat(color) ==
    LET brim == box(-24, 112, -24, 24, 117, 12)
        cone_verts == << <<-20, 117, -20>>, <<20, 117, -20>>,
                         <<20, 117, 8>>, <<-20, 117, 8>>,
                         <<0, 160, -6>> >>
        cone_idx == <<0,3,2, 0,2,1, 0,1,4, 1,2,4, 2,3,4, 3,0,4>>
    IN  << mesh_block("hat_brim", brim[1], brim[2], color, <<>>),
           mesh_block("hat_cone", cone_verts, cone_idx, color, <<>>) >>

belt_and_pouches(color) ==
    LET belt == box(-28, -2, -1, 28, 5, 13)
        p1 == box(14, -14, -1, 26, -1, 12)
        p2 == box(-26, -14, -1, -14, -1, 12)
        off1 == Len(belt[1])
        off2 == off1 + Len(p1[1])
        p1i == offset_indices(p1[2], off1)
        p2i == offset_indices(p2[2], off2)
    IN  << mesh_block("belt", belt[1], belt[2], color, <<>>),
           mesh_block("pouch_r", p1[1], p1i, color, <<>>),
           mesh_block("pouch_l", p2[1], p2i, color, <<>>) >>

(***************************************************************************)
(* Serialisation of a creature file.  A file body is the list of its       *)
(* top-level fields in the order they are written, <<key, value>>; the     *)
(* directory OUT is the list of <<filename, body>> in order of creation.   *)
(***************************************************************************)
\* emit_transform(): translation (0.0, 0.0, 0.0), rotation (0.0, 0.0, 0.0),
\* scale (1.0, 1.0, 1.0)
emit_transform ==
    [translation |-> <<0, 0, 0>>, rotation |-> <<0, 0, 0>>, scale |-> <<1, 1, 1>>]

\* with open(path, "w") as f: f.write(body)
open_w(dir, filename, body) ==
    IF \E i \in 1..Len(dir) : dir[i][1] = filename
    THEN [i \in 1..Len(dir) |->
            IF dir[i][1] = filename THEN <<filename, body>> ELSE dir[i]]
    ELSE Append(dir, <<filename, body>>)

\* [emit_transform() for _ in meshes]
transforms_for(mesh_list) == [k \in 1..Len(mesh_list) |-> emit_transform]

\* mutant: the mesh records written last to first
write_creature_body_reversed(creature_id, name, mesh_list, scale) ==
    << <<"id", creature_id>>,
       <<"name", name>>,
       <<"meshes", [k \in 1..Len(mesh_list) |->
                       mesh_list[Len(mesh_list) + 1 - k]]>>,
       <<"mesh_transforms", transforms_for(mesh_list)>>,
       <<"scale", scale>>,
       <<"color_tint", "None">> >>

\* write_creature of gen_dire_wolves.py and gen_detailed_meshes.py: the body
write_creature_body(creature_id, name, mesh_list, scale) ==
    << <<"id", creature_id>>,
       <<"name", name>>,
       <<"meshes", mesh_list>>,
       <<"mesh_transforms", transforms_for(mesh_list)>>,
       <<"scale", scale>>,
       <<"color_tint", "None">> >>

write_creature(dir, filename, creature_id, name, mesh_list, scale) ==
    open_w(dir, filename, write_creature_body(creature_id, name, mesh_list, scale))

(***************************************************************************)
(* State machine of the wolf generator: build_wolf_base with parameters    *)
(* drawn from the sets below, and write_creature of the list built last.   *)
(***************************************************************************)
DIRE_FUR == c3(72, 70, 68)
DIRE_DARK == c3(45, 43, 40)
DIRE_EYE == c3(95, 60, 10)

BodyScales == {90, 100, 120}
BulkScales == {100, 115}
SnoutLengths == {110}
EarHeights == {100, 110}

Call_build_wolf_base ==
    \E body_scale \in BodyScales, bulk_scale \in BulkScales,
       snout_length \in SnoutLengths, ear_height \in EarHeights,
       include_scars \in BOOLEAN :
        /\ call' = [fn |-> "build_wolf_base",
                    args |-> <<body_scale, bulk_scale, snout_length,
                               ear_height, include_scars>>]
        /\ meshes' = build_wolf_base(DIRE_FUR, DIRE_DARK, DIRE_EYE, body_scale,
                                     bulk_scale, snout_length, ear_height,
                                     include_scars)
        /\ UNCHANGED <<BOX_I, palette, mesh, files, snap, out, pc>>

\* write_creature("direwolf.ron", 13, "DireWolf", dire_meshes, 1.1)
Call_write_creature ==
    /\ call' = [fn |-> "write_creature",
                args |-> <<"direwolf.ron", 13, "DireWolf", 110>>]
    /\ files' = write_creature(files, "direwolf.ron", 13, "DireWolf", meshes, 110)
    /\ UNCHANGED <<BOX_I, palette, mesh, meshes, snap, out, pc>>

NextWolf ==
    \/ Call_build_wolf_base
    \/ Call_write_creature

SpecWolf == Init /\ [][NextWolf]_vars

(***************************************************************************)
(* generate_characters.py: palette, characters and the file writer.        *)
(* scale is in hundredths, health and speed are in tenths.                 *)
(***************************************************************************)
\* "\n".join(p for p in parts if p): the blocks of the non-empty parts
RECURSIVE build(_)
build(parts) ==
    IF parts = <<>> THEN <<>>
    ELSE IF Head(parts) = <<>> THEN build(Tail(parts))
    ELSE Head(parts) \o build(Tail(parts))

female_dragonborn_sorcerer ==
    LET p == build(<< legs(C("scales_bronze"), 100),
                      torso(C("cloth_crimson"), 27, 80),
                      scales_overlay(<<82, 62, 30, 70>>),
                      arms(C("scales_bronze"), 48),
                      head(C("scales_bronze"), 17, 32),
                      eyes(C("glowing_red")),
                      horns_swept(C("horn_dark")),
                      weapon_staff(C("wood_dark"), C("orb_purple")),
                      aura_particles(<<80, 30, 10>>, 55) >>)
    IN  <<"female_dragonborn_sorcerer.ron", "FemaleDragonbornSorcerer",
          98, 850, 55, p>>

female_dwarf_barbarian ==
    LET p == build(<< legs(C("fur_brown"), 100),
                      torso(C("chainmail"), 27, 80),
                      fur_mantle(C("fur_brown")),
                      arms(C("chainmail"), 48),
                      head(C("skin_dwarf"), 17, 32),
                      hair_cap(C("hair_red"), 4),
                      beard(C("hair_red"), 10),
                      eyes(<<25, 18, 12, 100>>),
                      warpaint(<<55, 12, 8, 100>>),
                      weapon_axe(C("iron"), "right") >>)
    IN  <<"female_dwarf_barbarian.ron", "FemaleDwarfBarbarian",
          88, 1100, 45, p>>

female_elf_archer_platinum ==
    LET p == build(<< legs(C("leather_green"), 100),
                      torso(C("leather_green"), 27, 80),
                      arms(C("leather_green"), 48),
                      head(C("skin_elf_pale"), 17, 32),
                      hair_cap(C("hair_platinum"), 4),
                      pointed_ears(C("skin_elf_pale")),
                      eyes(<<20, 65, 28, 100>>),
                      weapon_bow(C("wood_light")),
                      quiver(C("leather_brown")) >>)
    IN  <<"female_elf_archer_platinum.ron", "FemaleElfArcherPlatinum",
          100, 750, 70, p>>

\* the characters of all_characters that are modelled
all_characters ==
    << female_dragonborn_sorcerer, female_dwarf_barbarian,
       female_elf_archer_platinum >>

\* write_ron of generate_characters.py: name, scale, health, speed, meshes
write_ron_characters(dir, filename, name, scale, health, speed, meshes_text) ==
    open_w(dir, filename,
           << <<"name", name>>,
              <<"scale", scale>>,
              <<"health", health>>,
              <<"speed", speed>>,
              <<"meshes", meshes_text>> >>)

(***************************************************************************)
(* gen_monsters2.py: the goblin.  Coordinates are in thousandths, colours  *)
(* in hundredths.  box_v, quad_v, quad_i, tri_v, tri_i and norm3 are those *)
(* of gen_dire_wolves.py, and emit builds the block that emit_mesh builds. *)
(***************************************************************************)
SKIN_GOBLIN == c3(36, 50, 22)
IRON_RUST == c3(46, 34, 26)
TUSK == c3(92, 88, 78)
EYE_YELLOW == c3(88, 78, 10)

biped_legs(color, sy) ==
    << box_mesh("left_leg", -150, -sy, -100, -50, 0, 50, color),
       box_mesh("right_leg", 50, -sy, -100, 150, 0, 50, color) >>

biped_torso(color, w, h) == << box_mesh("torso", -w, 0, -150, w, h, 120, color) >>

biped_arms(color, reach) ==
    << box_mesh("left_arm", -reach, 100, -100, -270, 650, 50, color),
       box_mesh("right_arm", 270, 100, -100, reach, 650, 50, color) >>

biped_head(color, w, h, yb) ==
    << box_mesh("head", -w, yb, -170, w, yb + h, 70, color) >>

eye_pair(lc, rc, y, z, ox, ew, eh) ==
    LET rcol == IF rc = <<>> THEN lc ELSE rc
    IN  << quad_mesh("left_eye",
                     <<-ox - ew, y, z>>, <<-ox + ew, y, z>>,
                     <<-ox - ew, y + eh, z>>, <<-ox + ew, y + eh, z>>,
                     lc, 0, 0, 1),
           quad_mesh("right_eye",
                     <<ox - ew, y, z>>, <<ox + ew, y, z>>,
                     <<ox - ew, y + eh, z>>, <<ox + ew, y + eh, z>>,
                     rcol, 0, 0, 1) >>

tusk_pair(color) ==
    << tri_mesh("left_tusk", <<-60, 820, 70>>, <<-20, 820, 70>>,
                <<-40, 700, 110>>, color, 0, -1, 1),
       tri_mesh("right_tusk", <<20, 820, 70>>, <<60, 820, 70>>,
                <<40, 700, 110>>, color, 0, -1, 1) >>

ear_pair_large(color) ==
    << tri_mesh("left_ear", <<-170, 1080, -80>>, <<-170, 900, -80>>,
                <<-380, 990, -120>>, color, -1, 0, 1),
       tri_mesh("right_ear", <<170, 1080, -80>>, <<170, 900, -80>>,
                <<380, 990, -120>>, color, 1, 0, 1) >>

ribs(color) ==
    LET rows == << <<"rib_0", 180>>, <<"rib_1", 340>>, <<"rib_2", 500>> >>
    IN  Append_range(3, LAMBDA k :
            LET y == rows[k + 1][2]
            IN  quad_mesh(rows[k + 1][1],
                          <<-220, y, 122>>, <<220, y, 122>>,
                          <<-220, y + 60, 122>>, <<220, y + 60, 122>>,
                          color, 0, 0, 1))

dagger_weapon(color) == << box_mesh("dagger", 500, 0, -50, 530, 380, -10, color) >>

loincloth(color) ==
    << quad_mesh("loincloth_f",
                 <<-180, 0, 130>>, <<180, 0, 130>>,
                 <<-140, -240, 100>>, <<140, -240, 100>>, color, 0, 0, 1),
       quad_mesh("loincloth_b",
                 <<-180, 0, -140>>, <<180, 0, -140>>,
                 <<-140, -240, -110>>, <<140, -240, -110>>, color, 0, 0, -1) >>

\* write_ron of gen_monsters2.py: name, scale, health, speed, meshes
write_ron(dir, filename, name, scale, health, speed, note, mesh_list) ==
    open_w(dir, filename,
           << <<"name", name>>,
              <<"scale", scale>>,
              <<"health", health>>,
              <<"speed", speed>>,
              <<"meshes", mesh_list>> >>)

\* the list m of build_goblin
goblin_meshes ==
    biped_legs(SKIN_GOBLIN, 600)
    \o biped_torso(SKIN_GOBLIN, 200, 500)
    \o ribs(c3(28, 42, 16))
    \o biped_arms(SKIN_GOBLIN, 360)
    \o biped_head(SKIN_GOBLIN, 180, 280, 520)
    \o ear_pair_large(SKIN_GOBLIN)
    \o eye_pair(EYE_YELLOW, <<>>, 720, 71, 80, 40, 60)
    \o tusk_pair(TUSK)
    \o loincloth(c3(36, 28, 18))
    \o dagger_weapon(IRON_RUST)

(***************************************************************************)
(* State machine of the character and monster generators: every part       *)
(* function of generate_characters.py called with arguments its callers    *)
(* pass, the loop that writes all_characters, and build_goblin.            *)
(***************************************************************************)
PartColors == {C("iron"), C("orb_purple")}
OrbColors == {<<>>, C("orb_purple")}
BeardLengths == {8, 18, 32}

Call_legs ==
    \E color \in PartColors, scale_y \in {100} :
        /\ call' = [fn |-> "legs", args |-> <<color, scale_y>>]
        /\ meshes' = legs(color, scale_y)
        /\ UNCHANGED <<BOX_I, palette, mesh, files, snap, out, pc>>

Call_torso ==
    \E color \in PartColors, w \in {27}, h \in {80} :
        /\ call' = [fn |-> "torso", args |-> <<color, w, h>>]
        /\ meshes' = torso(color, w, h)
        /\ UNCHANGED <<BOX_I, palette, mesh, files, snap, out, pc>>

Call_arms ==
    \E color \in PartColors, reach \in {48} :
        /\ call' = [fn |-> "arms", args |-> <<color, reach>>]
        /\ meshes' = arms(color, reach)
        /\ UNCHANGED <<BOX_I, palette, mesh, files, snap, out, pc>>

Call_head ==
    \E color \in PartColors, w \in {17}, h \in {32} :
        /\ call' = [fn |-> "head", args |-> <<color, w, h>>]
        /\ meshes' = head(color, w, h)
        /\ UNCHANGED <<BOX_I, palette, mesh, files, snap, out, pc>>

Call_hair_cap ==
    \E color \in PartColors, extra_y \in {4} :
        /\ call' = [fn |-> "hair_cap", args |-> <<color, extra_y>>]
        /\ meshes' = hair_cap(color, extra_y)
        /\ UNCHANGED <<BOX_I, palette, mesh, files, snap, out, pc>>

Call_beard ==
    \E color \in PartColors, length \in BeardLengths :
        /\ call' = [fn |-> "beard", args |-> <<color, length>>]
        /\ meshes' = beard(color, length)
        /\ UNCHANGED <<BOX_I, palette, mesh, files, snap, out, pc>>

Call_eyes ==
    \E color \in PartColors :
        /\ call' = [fn |-> "eyes", args |-> <<color>>]
        /\ meshes' = eyes(color)
        /\ UNCHANGED <<BOX_I, palette, mesh, files, snap, out, pc>>

Call_hood ==
    \E k \in 1..Len(palette), alpha \in {100, 92} :
        /\ call' = [fn |-> "hood", args |-> <<palette[k], alpha>>]
        /\ meshes' = hood(palette[k], alpha)
        /\ palette' = [palette EXCEPT ![k] = hood_color_after(palette[k], alpha)]
        /\ UNCHANGED <<BOX_I, mesh, files, snap, out, pc>>

Call_shoulder_pads ==
    \E color \in PartColors :
        /\ call' = [fn |-> "shoulder_pads", args |-> <<color>>]
        /\ meshes' = shoulder_pads(color)
        /\ UNCHANGED <<BOX_I, palette, mesh, files, snap, out, pc>>

Call_weapon_sword ==
    \E color \in PartColors, side \in {"right"} :
        /\ call' = [fn |-> "weapon_sword", args |-> <<color, side>>]
        /\ meshes' = weapon_sword(color, side)
        /\ UNCHANGED <<BOX_I, palette, mesh, files, snap, out, pc>>

Call_weapon_axe ==
    \E color \in PartColors, side \in {"right"} :
        /\ call' = [fn |-> "weapon_axe", args |-> <<color, side>>]
        /\ meshes' = weapon_axe(color, side)
        /\ UNCHANGED <<BOX_I, palette, mesh, files, snap, out, pc>>

Call_weapon_bow ==
    \E color \in PartColors :
        /\ call' = [fn |-> "weapon_bow", args |-> <<color>>]
        /\ meshes' = weapon_bow(color)
        /\ UNCHANGED <<BOX_I, palette, mesh, files, snap, out, pc>>

Call_weapon_staff ==
    \E color \in PartColors, orb_color \in OrbColors :
        /\ call' = [fn |-> "weapon_staff", args |-> <<color, orb_color>>]
        /\ meshes' = weapon_staff(color, orb_color)
        /\ UNCHANGED <<BOX_I, palette, mesh, files, snap, out, pc>>

Call_weapon_dagger ==
    \E color \in PartColors, side \in {"left", "right"} :
        /\ call' = [fn |-> "weapon_dagger", args |-> <<color, side>>]
        /\ meshes' = weapon_dagger(color, side)
        /\ UNCHANGED <<BOX_I, palette, mesh, files, snap, out, pc>>

Call_quiver ==
    \E color \in PartColors :
        /\ call' = [fn |-> "quiver", args |-> <<color>>]
        /\ meshes' = quiver(color)
        /\ UNCHANGED <<BOX_I, palette, mesh, files, snap, out, pc>>

Call_cloak ==
    \E color \in PartColors, alpha \in {90, 88} :
        /\ call' = [fn |-> "cloak", args |-> <<color, alpha>>]
        /\ meshes' = cloak(color, alpha)
        /\ UNCHANGED <<BOX_I, palette, mesh, files, snap, out, pc>>

Call_horns_swept ==
    \E color \in PartColors :
        /\ call' = [fn |-> "horns_swept", args |-> <<color>>]
        /\ meshes' = horns_swept(color)
        /\ UNCHANGED <<BOX_I, palette, mesh, files, snap, out, pc>>

Call_horns_ram ==
    \E color \in PartColors :
        /\ call' = [fn |-> "horns_ram", args |-> <<color>>]
        /\ meshes' = horns_ram(color)
        /\ UNCHANGED <<BOX_I, palette, mesh, files, snap, out, pc>>

Call_pointed_ears ==
    \E color \in PartColors :
        /\ call' = [fn |-> "pointed_ears", args |-> <<color>>]
        /\ meshes' = pointed_ears(color)
        /\ UNCHANGED <<BOX_I, palette, mesh, files, snap, out, pc>>

Call_tusks ==
    \E color \in PartColors :
        /\ call' = [fn |-> "tusks", args |-> <<color>>]
        /\ meshes' = tusks(color)
        /\ UNCHANGED <<BOX_I, palette, mesh, files, snap, out, pc>>

Call_scales_overlay ==
    \E color \in PartColors :
        /\ call' = [fn |-> "scales_overlay", args |-> <<color>>]
        /\ meshes' = scales_overlay(color)
        /\ UNCHANGED <<BOX_I, palette, mesh, files, snap, out, pc>>

Call_holy_symbol ==
    \E color \in PartColors :
        /\ call' = [fn |-> "holy_symbol", args |-> <<color>>]
        /\ meshes' = holy_symbol(color)
        /\ UNCHANGED <<BOX_I, palette, mesh, files, snap, out, pc>>

Call_aura_particles ==
    \E color \in PartColors, alpha \in {55, 40} :
        /\ call' = [fn |-> "aura_particles", args |-> <<color, alpha>>]
        /\ meshes' = aura_particles(color, alpha)
        /\ UNCHANGED <<BOX_I, palette, mesh, files, snap, out, pc>>

Call_warpaint ==
    \E color \in PartColors :
        /\ call' = [fn |-> "warpaint", args |-> <<color>>]
        /\ meshes' = warpaint(color)
        /\ UNCHANGED <<BOX_I, palette, mesh, files, snap, out, pc>>

Call_fur_mantle ==
    \E color \in PartColors :
        /\ call' = [fn |-> "fur_mantle", args |-> <<color>>]
        /\ meshes' = fur_mantle(color)
        /\ UNCHANGED <<BOX_I, palette, mesh, files, snap, out, pc>>

Call_crown_or_circlet ==
    \E color \in PartColors :
        /\ call' = [fn |-> "crown_or_circlet", args |-> <<color>>]
        /\ meshes' = crown_or_circlet(color)
        /\ UNCHANGED <<BOX_I, palette, mesh, files, snap, out, pc>>

Call_spellbook ==
    \E color \in PartColors :
        /\ call' = [fn |-> "spellbook", args |-> <<color>>]
        /\ meshes' = spellbook(color)
        /\ UNCHANGED <<BOX_I, palette, mesh, files, snap, out, pc>>

Call_goggles ==
    \E color \in PartColors :
        /\ call' = [fn |-> "goggles", args |-> <<color>>]
        /\ meshes' = goggles(color)
        /\ UNCHANGED <<BOX_I, palette, mesh, files, snap, out, pc>>

Call_wand ==
    \E color \in PartColors, orb_color \in OrbColors :
        /\ call' = [fn |-> "wand", args |-> <<color, orb_color>>]
        /\ meshes' = wand(color, orb_color)
        /\ UNCHANGED <<BOX_I, palette, mesh, files, snap, out, pc>>

Call_spectacles ==
    \E color \in PartColors :
        /\ call' = [fn |-> "spectacles", args |-> <<color>>]
        /\ meshes' = spectacles(color)
        /\ UNCHANGED <<BOX_I, palette, mesh, files, snap, out, pc>>

Call_antler_crown ==
    \E color \in PartColors :
        /\ call' = [fn |-> "antler_crown", args |-> <<color>>]
        /\ meshes' = antler_crown(color)
        /\ UNCHANGED <<BOX_I, palette, mesh, files, snap, out, pc>>

Call_tattoo_marks ==
    \E color \in PartColors :
        /\ call' = [fn |-> "tattoo_marks", args |-> <<color>>]
        /\ meshes' = tattoo_marks(color)
        /\ UNCHANGED <<BOX_I, palette, mesh, files, snap, out, pc>>

Call_pigtails ==
    \E color \in PartColors :
        /\ call' = [fn |-> "pigtails", args |-> <<color>>]
        /\ meshes' = pigtails(color)
        /\ UNCHANGED <<BOX_I, palette, mesh, files, snap, out, pc>>

Call_wizard_hat ==
    \E color \in PartColors :
        /\ call' = [fn |-> "wizard_hat", args |-> <<color>>]
        /\ meshes' = wizard_hat(color)
        /\ UNCHANGED <<BOX_I, palette, mesh, files, snap, out, pc>>

Call_belt_and_pouches ==
    \E color \in PartColors :
        /\ call' = [fn |-> "belt_and_pouches", args |-> <<color>>]
        /\ meshes' = belt_and_pouches(color)
        /\ UNCHANGED <<BOX_I, palette, mesh, files, snap, out, pc>>

\* the number of iterations the loop over all_characters has done: the
\* characters whose file is in the directory
written(dir) ==
    Cardinality({k \in 1..Len(all_characters) :
                    \E i \in 1..Len(dir) : dir[i][1] = all_characters[k][1]})

\* one iteration of
\* for fname, display, scale, hp, spd, meshes in all_characters:
\*     write_ron(fname, display, scale, hp, spd, meshes)
Call_write_ron_characters ==
    /\ written(files) < Len(all_characters)
    /\ LET t == all_characters[written(files) + 1]
       IN  /\ call' = [fn |-> "write_ron_characters",
                       args |-> <<t[1], t[2], t[3], t[4], t[5]>>]
           /\ meshes' = t[6]
           /\ files' = write_ron_characters(files, t[1], t[2], t[3], t[4],
                                            t[5], t[6])
           /\ UNCHANGED <<BOX_I, palette, mesh, snap, out, pc>>

\* build_detailed_wolf of gen_detailed_meshes.py: the tongue, the one mesh it
\* emits with normals; coordinates in thousandths
TONGUE_PINK == c3(85, 45, 42)

tongue ==
    emit_mesh("tongue",
              << <<-20, 320, -940>>, <<20, 320, -940>>,
                 <<15, 320, -980>>, <<-15, 320, -980>> >>,
              <<0, 1, 2, 0, 2, 3>>, TONGUE_PINK,
              [k \in 1..4 |-> <<0, 1, 0>>])

Call_emit_tongue ==
    /\ call' = [fn |-> "emit_tongue", args |-> <<>>]
    /\ meshes' = <<tongue>>
    /\ UNCHANGED <<BOX_I, palette, mesh, files, snap, out, pc>>

Call_build_goblin ==
    /\ call' = [fn |-> "build_goblin", args |-> <<>>]
    /\ meshes' = goblin_meshes
    /\ files' = write_ron(files, "goblin.ron", "Goblin", 72, 400, 65,
                          "id:1 | Speed 8, HP 8 | Small cowardly fighter, big ears, rusty dagger",
                          goblin_meshes)
    /\ UNCHANGED <<BOX_I, palette, mesh, snap, out, pc>>

PartFns ==
    {"legs", "torso", "arms", "head", "hair_cap", "beard", "eyes",
     "hood", "shoulder_pads", "weapon_sword", "weapon_axe",
     "weapon_bow", "weapon_staff", "weapon_dagger", "quiver", "cloak",
     "horns_swept", "horns_ram", "pointed_ears", "tusks",
     "scales_overlay", "holy_symbol", "aura_particles", "warpaint",
     "fur_mantle", "crown_or_circlet", "spellbook", "goggles", "wand",
     "spectacles", "antler_crown", "tattoo_marks", "pigtails",
     "wizard_hat", "belt_and_pouches"}

NextParts ==
    \/ Call_legs
    \/ Call_torso
    \/ Call_arms
    \/ Call_head
    \/ Call_hair_cap
    \/ Call_beard
    \/ Call_eyes
    \/ Call_hood
    \/ Call_shoulder_pads
    \/ Call_weapon_sword
    \/ Call_weapon_axe
    \/ Call_weapon_bow
    \/ Call_weapon_staff
    \/ Call_weapon_dagger
    \/ Call_quiver
    \/ Call_cloak
    \/ Call_horns_swept
    \/ Call_horns_ram
    \/ Call_pointed_ears
    \/ Call_tusks
    \/ Call_scales_overlay
    \/ Call_holy_symbol
    \/ Call_aura_particles
    \/ Call_warpaint
    \/ Call_fur_mantle
    \/ Call_crown_or_circlet
    \/ Call_spellbook
    \/ Call_goggles
    \/ Call_wand
    \/ Call_spectacles
    \/ Call_antler_crown
    \/ Call_tattoo_marks
    \/ Call_pigtails
    \/ Call_wizard_hat
    \/ Call_belt_and_pouches
    \/ Call_write_ron_characters
    \/ Call_build_goblin
    \/ Call_emit_tongue

SpecParts == Init /\ [][NextParts]_vars

(***************************************************************************)
(* Whole creatures: build_lich of gen_monsters2.py (coordinates in         *)
(* thousandths) and female_halfelf_rogue of generate_characters.py, next   *)
(* to the goblin and the characters written by the loop.                   *)
(***************************************************************************)
c4(r, g, b, a) == <<r, g, b, a>>

BONE == c3(88, 86, 78)
LICH_ROBE == c3(16, 12, 26)
LICH_TRIM == c3(38, 28, 58)
GOLD == c3(84, 70, 26)
EYE_PURPLE == c3(62, 26, 90)
ORB_PURPLE == c4(60, 25, 90, 88)
DRAIN == c4(50, 18, 72, 60)

staff_weapon(shaft_c, orb_c) ==
    << box_mesh("staff", 520, 0, -60, 560, 1760, -20, shaft_c),
       box_mesh("staff_orb", 440, 1740, -100, 640, 1940, 40, orb_c) >>

crown_spikes(color) ==
    LET xs == <<-140, -40, 40, 140>>
    IN  Append_range(4, LAMBDA k :
            LET sx == xs[k + 1]
            IN  tri_mesh("crown_" \o ToString(k),
                         <<sx - 30, 1180, -140>>, <<sx + 30, 1180, -140>>,
                         <<sx, 1400, -160>>, color, 0, 1, 1))

aura_sparks(color, count) ==
    LET pts == << <<-320, 500, 180>>, <<280, 660, 180>>, <<0, 1060, 160>>,
                  <<180, 280, 190>>, <<-80, 780, 200>> >>
    IN  Append_range(count, LAMBDA k :
            LET px == pts[k + 1][1]
                py == pts[k + 1][2]
                pz == pts[k + 1][3]
            IN  tri_mesh("aura_" \o ToString(k),
                         <<px - 80, py, pz>>, <<px + 80, py, pz>>,
                         <<px, py + 160, pz>>,
                         c4(color[1], color[2], color[3], 55), 0, 0, 1))

\* the list m of build_lich
lich_meshes ==
    biped_legs(LICH_ROBE, 1000)
    \o biped_torso(LICH_ROBE, 320, 880)
    \o << quad_mesh("robe_trim_bot",
                    <<-320, 20, 122>>, <<320, 20, 122>>,
                    <<-320, 80, 122>>, <<320, 80, 122>>, LICH_TRIM, 0, 0, 1),
          quad_mesh("robe_trim_top",
                    <<-320, 800, 122>>, <<320, 800, 122>>,
                    <<-320, 860, 122>>, <<320, 860, 122>>, LICH_TRIM, 0, 0, 1) >>
    \o << box_mesh("left_sleeve", -600, 120, -140, -280, 800, 60, LICH_ROBE),
          box_mesh("right_sleeve", 280, 120, -140, 600, 800, 60, LICH_ROBE),
          box_mesh("left_hand", -620, 60, -80, -520, 180, 0, BONE),
          box_mesh("right_hand", 520, 60, -80, 620, 180, 0, BONE) >>
    \o << box_mesh("skull", -170, 900, -160, 170, 1180, 50, BONE) >>
    \o << quad_mesh("left_socket",
                    <<-140, 980, 52>>, <<-80, 980, 52>>,
                    <<-140, 1060, 52>>, <<-80, 1060, 52>>,
                    c3(8, 6, 12), 0, 0, 1),
          quad_mesh("right_socket",
                    <<80, 980, 52>>, <<140, 980, 52>>,
                    <<80, 1060, 52>>, <<140, 1060, 52>>,
                    c3(8, 6, 12), 0, 0, 1) >>
    \o eye_pair(EYE_PURPLE, <<>>, 990, 71, 110, 30, 60)
    \o << box_mesh("crown_band", -190, 1170, -160, 190, 1220, 60, GOLD) >>
    \o crown_spikes(GOLD)
    \o staff_weapon(c3(18, 12, 22), ORB_PURPLE)
    \o aura_sparks(DRAIN, 4)
    \o aura_sparks(c4(28, 72, 36, 55), 2)

female_halfelf_rogue ==
    LET p == build(<< legs(C("leather_dark"), 100),
                      torso(C("leather_dark"), 27, 80),
                      cloak(C("cloth_dark"), 88),
                      arms(C("leather_dark"), 48),
                      head(C("skin_tan"), 17, 32),
                      hair_cap(C("hair_chestnut"), 4),
                      pointed_ears(C("skin_tan")),
                      eyes(<<52, 42, 22, 100>>),
                      weapon_dagger(C("iron"), "left"),
                      weapon_dagger(C("iron"), "right") >>)
    IN  <<"female_halfelf_rogue.ron", "FemaleHalfElfRogue", 100, 780, 82, p>>

Call_build_lich ==
    /\ call' = [fn |-> "build_lich", args |-> <<>>]
    /\ meshes' = lich_meshes
    /\ files' = write_ron(files, "lich.ron", "Lich", 105, 1850, 40,
                          "id:31 | Intellect 22, HP 150, undead, fire/cold/elec immune, Drain | Necromancer lich",
                          lich_meshes)
    /\ UNCHANGED <<BOX_I, palette, mesh, snap, out, pc>>

Call_female_halfelf_rogue ==
    /\ call' = [fn |-> "female_halfelf_rogue", args |-> <<>>]
    /\ meshes' = female_halfelf_rogue[6]
    /\ UNCHANGED <<BOX_I, palette, mesh, files, snap, out, pc>>

NextCreatures ==
    \/ Call_build_goblin
    \/ Call_build_lich
    \/ Call_female_halfelf_rogue
    \/ Call_write_ron_characters

SpecCreatures == Init /\ [][NextCreatures]_vars

(***************************************************************************)
(* State machine for repeated builder calls: the builders of               *)
(* gen_detailed_meshes.py, interleaved with box_mesh, a part function and  *)
(* a file writer; Observe keeps the last builder call and what it returned.*)
(***************************************************************************)
DetCentres == {<<1, -2, 3>>}
DetRadii == {1}
DetSegs == {MaxSeg}
BuilderFns == {"cylinder", "tapered_cylinder", "sphere_section", "ellipsoid",
               "cone_mesh"}

Observe ==
    /\ call.fn \in BuilderFns
    /\ snap' = [call |-> call, mesh |-> mesh]
    /\ UNCHANGED <<BOX_I, palette, call, mesh, meshes, files, out, pc>>

NextDet ==
    \/ Call_cylinder(DetCentres, DetRadii, DetSegs)
    \/ Call_tapered_cylinder(DetCentres, DetRadii, DetSegs)
    \/ Call_sphere_section(DetCentres, DetRadii, DetSegs)
    \/ Call_ellipsoid(DetCentres, DetRadii, DetSegs)
    \/ Call_cone_mesh(DetCentres, DetRadii, DetSegs)
    \/ Call_box_mesh(DetCentres, DetRadii)
    \/ Call_weapon_axe
    \/ Call_write_creature
    \/ Observe

SpecDet == Init /\ [][NextDet]_vars

(***************************************************************************)
(* A run of generate_characters.py and a run of gen_monsters2.py: the      *)
(* files they write.  The rows are the values the character functions      *)
(* return, in the order of all_characters, and the arguments of the        *)
(* write_ron calls of build_goblin .. build_lich, in the order they are    *)
(* called; the meshes text of a file is left out of its body.  The two     *)
(* scripts are run one after the other, in either order.                   *)
(***************************************************************************)
character_rows ==
    <<<<"female_dragonborn_sorcerer.ron", "FemaleDragonbornSorcerer", 98, 850, 55>>,
       <<"female_dwarf_barbarian.ron", "FemaleDwarfBarbarian", 88, 1100, 45>>,
       <<"female_dwarf_paladin.ron", "FemaleDwarfPaladin", 88, 1000, 38>>,
       <<"female_elf_archer_platinum.ron", "FemaleElfArcherPlatinum", 100, 750, 70>>,
       <<"female_elf_archer_brown.ron", "FemaleElfArcherBrown", 100, 750, 70>>,
       <<"female_elf_assassin.ron", "FemaleElfAssassin", 100, 800, 80>>,
       <<"female_elf_paladin.ron", "FemaleElfPaladin", 100, 900, 55>>,
       <<"female_elf_sorcerer.ron", "FemaleElfSorcerer", 100, 700, 55>>,
       <<"female_gnome_druid.ron", "FemaleGnomeDruid", 78, 650, 50>>,
       <<"female_gnome_rogue_goggles.ron", "FemaleGnomeRogueGoggles", 78, 700, 85>>,
       <<"female_gnome_rogue_auburn.ron", "FemaleGnomeRogueAuburn", 78, 700, 85>>,
       <<"female_gnome_warlock.ron", "FemaleGnomeWarlock", 78, 650, 55>>,
       <<"female_halfelf_archer.ron", "FemaleHalfElfArcher", 100, 750, 70>>,
       <<"female_halfelf_rogue.ron", "FemaleHalfElfRogue", 100, 780, 82>>,
       <<"female_halfelf_warlock.ron", "FemaleHalfElfWarlock", 100, 720, 55>>,
       <<"female_halfling_mage.ron", "FemaleHalflingMage", 80, 650, 50>>,
       <<"female_human_barbarian_auburn.ron", "FemaleHumanBarbarianAuburn", 100, 1100, 55>>,
       <<"female_human_barbarian_dark.ron", "FemaleHumanBarbarianDark", 100, 1100, 55>>,
       <<"female_human_cleric.ron", "FemaleHumanCleric", 100, 800, 45>>,
       <<"female_human_knight_v1.ron", "FemaleHumanKnightV1", 100, 1000, 45>>,
       <<"female_human_knight_v2.ron", "FemaleHumanKnightV2", 100, 1000, 45>>,
       <<"female_human_paladin.ron", "FemaleHumanPaladin", 100, 950, 45>>,
       <<"female_human_warlock.ron", "FemaleHumanWarlock", 100, 720, 55>>,
       <<"female_orc_archer_olive.ron", "FemaleOrcArcherOlive", 105, 800, 65>>,
       <<"female_orc_archer_green.ron", "FemaleOrcArcherGreen", 105, 800, 65>>,
       <<"female_orc_assassin.ron", "FemaleOrcAssassin", 105, 820, 80>>,
       <<"female_orc_barbarian.ron", "FemaleOrcBarbarian", 105, 1150, 50>>,
       <<"female_orc_paladin.ron", "FemaleOrcPaladin", 110, 1050, 40>>,
       <<"female_tiefling_barbarian.ron", "FemaleTieflingBarbarian", 100, 1100, 55>>,
       <<"female_tiefling_cleric.ron", "FemaleTieflingCleric", 100, 800, 45>>,
       <<"male_dragonborn_sorcerer.ron", "MaleDragonbornSorcerer", 105, 850, 55>>,
       <<"male_dwarf_barbarian.ron", "MaleDwarfBarbarian", 88, 1150, 42>>,
       <<"male_dwarf_cleric.ron", "MaleDwarfCleric", 88, 850, 35>>,
       <<"male_dwarf_knight.ron", "MaleDwarfKnight", 88, 1050, 38>>,
       <<"male_dwarf_paladin.ron", "MaleDwarfPaladin", 88, 1000, 38>>,
       <<"male_elf_archer_blonde.ron", "MaleElfArcherBlonde", 100, 750, 72>>,
       <<"male_elf_archer_silver.ron", "MaleElfArcherSilver", 100, 750, 72>>,
       <<"male_elf_assassin.ron", "MaleElfAssassin", 100, 800, 85>>,
       <<"male_elf_druid.ron", "MaleElfDruid", 100, 720, 55>>,
       <<"male_elf_paladin.ron", "MaleElfPaladin", 100, 900, 55>>,
       <<"male_gnome_rogue.ron", "MaleGnomeRogue", 78, 720, 85>>,
       <<"male_gnome_sorcerer.ron", "MaleGnomeSorcerer", 78, 680, 50>>,
       <<"male_gnome_warlock_spiked.ron", "MaleGnomeWarlockSpiked", 78, 650, 55>>,
       <<"male_gnome_warlock_spectacles.ron", "MaleGnomeWarlockSpectacles", 78, 650, 55>>,
       <<"male_halfelf_rogue.ron", "MaleHalfElfRogue", 100, 780, 85>>,
       <<"male_halfelf_warlock.ron", "MaleHalfElfWarlock", 100, 720, 55>>,
       <<"male_halfling_mage.ron", "MaleHalflingMage", 80, 650, 48>>,
       <<"male_human_barbarian.ron", "MaleHumanBarbarian", 105, 1150, 55>>,
       <<"male_human_knight.ron", "MaleHumanKnight", 100, 1050, 45>>,
       <<"male_human_rogue.ron", "MaleHumanRogue", 100, 800, 82>>,
       <<"male_orc_archer.ron", "MaleOrcArcher", 110, 850, 65>>,
       <<"male_orc_barbarian.ron", "MaleOrcBarbarian", 110, 1200, 50>>,
       <<"male_orc_paladin.ron", "MaleOrcPaladin", 110, 1100, 40>>,
       <<"male_tiefling_barbarian.ron", "MaleTieflingBarbarian", 105, 1150, 55>>,
       <<"male_tiefling_cleric.ron", "MaleTieflingCleric", 100, 800, 45>> >>

monster_rows ==
    <<<<"goblin.ron", "Goblin", 72, 400, 65>>,
       <<"kobold.ron", "Kobold", 70, 280, 75>>,
       <<"giant_rat.ron", "GiantRat", 65, 200, 80>>,
       <<"orc.ron", "Orc", 110, 950, 40>>,
       <<"skeleton.ron", "Skeleton", 100, 600, 35>>,
       <<"wolf.ron", "Wolf", 90, 550, 85>>,
       <<"ogre.ron", "Ogre", 136, 1450, 30>>,
       <<"zombie.ron", "Zombie", 100, 1000, 20>>,
       <<"fire_elemental.ron", "FireElemental", 110, 1600, 60>>,
       <<"dragon.ron", "Dragon", 220, 3100, 55>>,
       <<"lich.ron", "Lich", 105, 1850, 40>> >>

\* os.path.join(OUT, filename)
OUT_characters == "portraits_ron"
OUT_monsters == "monsters_ron"
path_join(dir_name, filename) == dir_name \o "/" \o filename

\* write_ron of either generator, without the meshes
creature_header(row) ==
    << <<"name", row[2]>>, <<"scale", row[3]>>,
       <<"health", row[4]>>, <<"speed", row[5]>> >>

\* one iteration of: for fname, ... in all_characters: write_ron(fname, ...)
Call_write_ron ==
    /\ pc[1] < Len(character_rows)
    /\ pc[2] \in {0, Len(monster_rows)}
    /\ LET row == character_rows[pc[1] + 1]
       IN  /\ call' = [fn |-> "write_ron", args |-> row]
           /\ files' = open_w(files, path_join(OUT_characters, row[1]),
                              creature_header(row))
    /\ pc' = <<pc[1] + 1, pc[2]>>
    /\ UNCHANGED <<BOX_I, palette, mesh, meshes, snap, out>>

\* the next of build_goblin() .. build_lich(): its write_ron and the line
\* it prints
Call_build_monster ==
    /\ pc[2] < Len(monster_rows)
    /\ pc[1] \in {0, Len(character_rows)}
    /\ LET row == monster_rows[pc[2] + 1]
       IN  /\ call' = [fn |-> "build_monster", args |-> row]
           /\ files' = open_w(files, path_join(OUT_monsters, row[1]),
                              creature_header(row))
           /\ out' = Append(out, row[1])
    /\ pc' = <<pc[1], pc[2] + 1>>
    /\ UNCHANGED <<BOX_I, palette, mesh, meshes, snap>>

NextRun ==
    \/ Call_write_ron
    \/ Call_build_monster

SpecRun == Init /\ [][NextRun]_vars


(***************************************************************************)
(* scripts/clean_map_metadata.py: clean_tile_metadata.  A visual block is  *)
(* a sequence of lines, each ended by a newline; a line is                 *)
(* <<fields, comma>>: the <<name, value>> pairs written on it, and whether *)
(* a comma ends it; Blank is an empty line.                                *)
(***************************************************************************)
MaxLines == 3        \* lines of a visual block: 0..MaxLines

Blank == <<>>

\* get_relevant_fields
get_relevant_fields(terrain_type) ==
    CASE terrain_type = "Grass" -> {"grass_density"}
      [] terrain_type = "Forest" ->
            {"tree_type", "foliage_density", "snow_coverage"}
      [] terrain_type = "Mountain" -> {"rock_variant", "snow_coverage"}
      [] terrain_type = "Water" -> {"water_flow_direction"}
      [] terrain_type = "Swamp" -> {"water_flow_direction"}
      [] terrain_type \in {"Ground", "Stone", "Dirt", "Lava"} -> {}
      [] OTHER -> {}

all_terrain_fields ==
    <<"grass_density", "tree_type", "rock_variant",
      "water_flow_direction", "foliage_density", "snow_coverage">>

\* all_terrain_fields - relevant_fields
fields_to_remove(terrain_type) ==
    {all_terrain_fields[k] : k \in 1..Len(all_terrain_fields)}
    \ get_relevant_fields(terrain_type)

\* rf'^\s*{field}:.*,\s*$' on one line: the line starts with the field name
\* and its last character, white space aside, is a comma
pattern_matches(line, field) ==
    /\ line # Blank
    /\ line[1][1][1] = field
    /\ line[2]

\* re.sub(pattern, '', tile_text, flags=re.MULTILINE).  \s* also takes the
\* empty lines before a matching line and those after it, up to the last
\* newline before the next line with text: of a run of empty and matching
\* lines one newline is left after each match that the next line does not
\* take up, and none at the end of the text.
re_sub(field, tile_text) ==
    LET n == Len(tile_text)
        hit(i) == pattern_matches(tile_text[i], field)
        empty(i) == tile_text[i] = Blank \/ hit(i)
        gone(i) ==
            /\ empty(i)
            /\ \E k \in 1..n :
                  /\ hit(k)
                  /\ \A j \in (IF k < i THEN k..i ELSE i..k) : empty(j)
        newline_left(i) ==
            /\ i < n
            /\ \/ hit(i) /\ hit(i + 1)
               \/ ~empty(i + 1)
        keep(i) == ~gone(i) \/ newline_left(i)
        idx == SelectSeq([i \in 1..n |-> i], keep)
    IN  [k \in 1..Len(idx) |->
            IF gone(idx[k]) THEN Blank ELSE tile_text[idx[k]]]

\* for field in fields_to_remove: tile_text = re.sub(...)
RECURSIVE remove_fields(_, _)
remove_fields(fields, tile_text) ==
    IF fields = <<>> THEN tile_text
    ELSE remove_fields(Tail(fields), re_sub(Head(fields), tile_text))

\* the orders in which the loop may walk the set fields_to_remove; a field
\* that matches no line leaves the text as it is, whenever it is taken
set_orders(fields, tile_text) ==
    LET found == {f \in fields : \E i \in 1..Len(tile_text) :
                                    pattern_matches(tile_text[i], f)}
    IN  {order \in [1..Cardinality(found) -> found] :
            \A i, j \in 1..Cardinality(found) : order[i] = order[j] => i = j}

\* clean_tile_metadata, the set walked in the given order
clean_tile_metadata(tile_text, terrain_type, order) ==
    remove_fields(order, tile_text)

\* lines of a visual block
VisualLines ==
    {<< << <<all_terrain_fields[k], "Some">> >>, TRUE>> : k \in 1..6}
    \cup { << << <<"height", "Some">> >>, TRUE>>,
           << << <<"color_tint", "None">> >>, TRUE>>,
           << << <<"tree_type", "Some">> >>, FALSE>>,
           << << <<"height", "Some">>, <<"tree_type", "Some">> >>, TRUE>>,
           Blank }

VisualTexts == UNION {[1..n -> VisualLines] : n \in 0..MaxLines}

TerrainTypes == {"Grass", "Forest", "Mountain", "Water", "Lava", "Road"}

\* a visual block and a terrain type, as process_map_file hands them over
InitClean ==
    /\ BOX_I = BOX_I_init
    /\ palette = palette_init
    /\ call \in {[fn |-> "clean_tile", args |-> <<tile_text, terrain_type>>] :
                    tile_text \in VisualTexts, terrain_type \in TerrainTypes}
    /\ mesh = NoMesh
    /\ meshes = <<>>
    /\ files = <<>>
    /\ snap = [call |-> NoCall, mesh |-> NoMesh]
    /\ out = <<>>
    /\ pc = <<0, 0>>

Call_clean_tile_metadata ==
    /\ call.fn = "clean_tile"
    /\ call' = [fn |-> "clean_tile_metadata", args |-> call.args]
    /\ \E order \in set_orders(fields_to_remove(call.args[2]), call.args[1]) :
           out' = clean_tile_metadata(call.args[1], call.args[2], order)
    /\ UNCHANGED <<BOX_I, palette, mesh, meshes, files, snap, pc>>

NextClean == Call_clean_tile_metadata

SpecClean == InitClean /\ [][NextClean]_vars


(***************************************************************************)
(* scripts/generate_placeholder_sprites.py: the overwrite guard of main.   *)
(* A path is <<stem, suffix>> under the one output directory; an image is  *)
(* <<"PNG", width, height>>; a file somebody else made is <<"art">>.       *)
(***************************************************************************)
MaxSheets == 2       \* the first MaxSheets entries of SPRITE_SHEETS are used

\* name, tile_size, columns, rows
SPRITE_SHEETS ==
    << <<"walls", 128, 256, 4, 4>>,
       <<"doors", 128, 256, 4, 2>>,
       <<"terrain", 128, 128, 8, 8>>,
       <<"trees", 128, 256, 4, 4>>,
       <<"decorations", 64, 64, 8, 8>>,
       <<"npcs_town", 32, 48, 4, 4>>,
       <<"monsters_basic", 32, 48, 4, 4>>,
       <<"monsters_advanced", 32, 48, 4, 4>>,
       <<"recruitables", 32, 48, 4, 2>>,
       <<"signs", 32, 64, 4, 2>>,
       <<"portals", 128, 128, 4, 2>> >>

Sheets == SubSeq(SPRITE_SHEETS, 1, MaxSheets)

\* Path.exists()
exists(dir, filename) == \E i \in 1..Len(dir) : dir[i][1] = filename

\* the content of a file of a directory, <<>> when it is missing
Content(dir, filename) ==
    IF exists(dir, filename)
    THEN << (dir[CHOOSE i \in 1..Len(dir) : dir[i][1] = filename])[2] >>
    ELSE <<>>

\* the file names of the runs below; a directory has no order of its own
\* and its listing is kept in this one
FileNames ==
    [k \in 1..Len(SPRITE_SHEETS) |-> SPRITE_SHEETS[k][1] \o ".png"]
    \o <<"npc_placeholder.png", "npc_placeholder.dat", "item_placeholder.png">>

\* image.save(output_file, "PNG")
image_save(dir, filename, image) ==
    LET all == [k \in 1..Len(FileNames) |->
                    <<FileNames[k],
                      IF FileNames[k] = filename THEN <<image>>
                      ELSE Content(dir, FileNames[k])>>]
        kept == SelectSeq(all, LAMBDA e : e[2] # <<>>)
    IN  [k \in 1..Len(kept) |-> <<kept[k][1], kept[k][2][1]>>]

\* Image.new("RGBA", (img_width, img_height), ...)
sheet_image(spec) == <<"PNG", spec[2] * spec[4], spec[3] * spec[5]>>

\* create_placeholder_sprite_sheet(name, spec, output_dir): the directory
\* afterwards; it returns True, the file exists once it is saved
create_placeholder_sprite_sheet(dir, name, spec) ==
    image_save(dir, name \o ".png", sheet_image(spec))

\* sheets_to_gen: SPRITE_SHEETS, or its entries named in --sheets
sheets_to_gen(sheets) ==
    IF sheets = <<>> THEN Sheets
    ELSE SelectSeq(Sheets,
                   LAMBDA s : \E j \in 1..Len(sheets) : sheets[j] = s[1])

\* output_file.exists() and not args.force
guard_skips(dir, filename, force) == exists(dir, filename) /\ ~force

\* the loop over sheets_to_gen: <<directory, lines printed, success_count>>
RECURSIVE generate_sheets(_, _, _, _, _)
generate_sheets(dir, todo, force, lines, success_count) ==
    IF todo = <<>> THEN <<dir, lines, success_count>>
    ELSE LET sheet_name == Head(todo)[1]
         IN  IF guard_skips(dir, sheet_name \o ".png", force)
             THEN generate_sheets(dir, Tail(todo), force,
                                  Append(lines, <<"exists", sheet_name>>),
                                  success_count)
             ELSE generate_sheets(
                      create_placeholder_sprite_sheet(dir, sheet_name, Head(todo)),
                      Tail(todo), force,
                      Append(lines, <<"created", sheet_name>>),
                      success_count + 1)

\* defaults = {"npc": (32, 48)}; defaults.get(args.type, (32, 32))
type_size(type, size) ==
    IF size # <<>> THEN size
    ELSE IF type = "npc" THEN <<32, 48>> ELSE <<32, 32>>

type_spec(type, size) ==
    <<type \o "_placeholder", type_size(type, size)[1],
      type_size(type, size)[2], 1, 1>>

\* the --type branch of main: <<directory, lines printed>>
main_type(dir, type, size, output, force) ==
    LET sheet_name == IF output # <<>> THEN output[1]
                      ELSE type \o "_placeholder"
        checked == IF output # <<>> THEN output[1] \o output[2]
                   ELSE sheet_name \o ".png"
    IN  IF guard_skips(dir, checked, force)
        THEN <<dir, << <<"exists", sheet_name>> >> >>
        ELSE <<create_placeholder_sprite_sheet(dir, sheet_name,
                                               type_spec(type, size)),
               << <<"created", sheet_name>> >> >>

\* files that may be in the directory before the first run
ArtNames ==
    {Sheets[k][1] \o ".png" : k \in 1..Len(Sheets)}
    \cup {"npc_placeholder.png", "npc_placeholder.dat"}

SheetArgs ==
    {<<>>, <<Sheets[1][1], "bogus">>}
    \cup {<<Sheets[k][1]>> : k \in 1..Len(Sheets)}
TypeArgs == {"npc", "item"}
SizeArgs == {<<>>, <<16, 16>>}
OutputArgs == {<<>>, <<"npc_placeholder", ".png">>, <<"npc_placeholder", ".dat">>}

InitSprite ==
    /\ BOX_I = BOX_I_init
    /\ palette = palette_init
    /\ call = NoCall
    /\ mesh = NoMesh
    /\ meshes = <<>>
    /\ files \in {LET names == SelectSeq(FileNames, LAMBDA f : f \in S)
                    IN  [k \in 1..Len(names) |-> <<names[k], <<"art">> >>] :
                    S \in SUBSET ArtNames}
    /\ snap = [call |-> NoCall, mesh |-> NoMesh]
    /\ out = <<>>
    /\ pc = <<0, 0>>

\* main without --type
Call_main ==
    \E sheets \in SheetArgs, force \in BOOLEAN :
        LET r == generate_sheets(files, sheets_to_gen(sheets), force, <<>>, 0)
        IN  /\ call' = [fn |-> "main",
                        args |-> <<"", <<>>, <<>>, sheets, force, files>>]
            /\ files' = r[1]
            /\ out' = <<r[2], r[3]>>
            /\ UNCHANGED <<BOX_I, palette, mesh, meshes, snap, pc>>

\* main with --type
Call_main_type ==
    \E type \in TypeArgs, size \in SizeArgs, output \in OutputArgs,
       force \in BOOLEAN :
        LET r == main_type(files, type, size, output, force)
        IN  /\ call' = [fn |-> "main",
                        args |-> <<type, size, output, <<>>, force, files>>]
            /\ files' = r[1]
            /\ out' = <<r[2]>>
            /\ UNCHANGED <<BOX_I, palette, mesh, meshes, snap, pc>>

NextSprite ==
    \/ Call_main
    \/ Call_main_type

SpecSprite == InitSprite /\ [][NextSprite]_vars


(***************************************************************************)
(* scripts/fix_foliage_simple.py: the line scanner of process_map_file.    *)
(* A line is the sequence of its tokens, "\n" included; a file body is the *)
(* sequence of its lines; a path is the sequence of its parts.             *)
(***************************************************************************)
MaxMapLines == 4     \* lines of a map file: 0..MaxMapLines

\* sub in line
str_in(sub, line) == \E k \in 1..Len(line) : line[k] = sub

\* line.split(sep)[1]: what follows the first sep, up to the next one
str_split_1(line, sep) ==
    LET first == CHOOSE k \in 1..Len(line) :
                     /\ line[k] = sep
                     /\ \A j \in 1..(k - 1) : line[j] # sep
        rest  == SubSeq(line, first + 1, Len(line))
    IN  IF str_in(sep, rest)
        THEN SubSeq(rest, 1, (CHOOSE k \in 1..Len(rest) :
                                  /\ rest[k] = sep
                                  /\ \A j \in 1..(k - 1) : rest[j] # sep) - 1)
        ELSE rest

Whitespace == {" ", "\n"}

RECURSIVE str_lstrip(_, _)
str_lstrip(s, chars) ==
    IF s # <<>> /\ Head(s) \in chars THEN str_lstrip(Tail(s), chars) ELSE s

RECURSIVE str_rstrip(_, _)
str_rstrip(s, chars) ==
    IF s # <<>> /\ s[Len(s)] \in chars
    THEN str_rstrip(SubSeq(s, 1, Len(s) - 1), chars)
    ELSE s

\* s.strip()
str_strip(s) == str_rstrip(str_lstrip(s, Whitespace), Whitespace)

\* mutant: the terrain text taken without strip()
terrain_part_unstripped(line) == str_rstrip(str_split_1(line, "terrain:"), {","})

\* terrain_part = parts[1].strip().rstrip(',')
terrain_part(line) ==
    str_rstrip(str_strip(str_split_1(line, "terrain:")), {","})

\* current_terrain = None
PyNone == <<"<None>">>

\* the loop over lines: current_terrain and cleaned_lines
RECURSIVE simple_scan(_, _, _)
simple_scan(lines, current_terrain, cleaned_lines) ==
    IF lines = <<>>
    THEN cleaned_lines
    ELSE LET line    == Head(lines)
             terrain == IF str_in("terrain:", line)
                        THEN terrain_part(line)
                        ELSE current_terrain
         IN  IF str_in("foliage_density:", line) /\ terrain # <<"Forest">>
             THEN simple_scan(Tail(lines), terrain, cleaned_lines)
             ELSE simple_scan(Tail(lines), terrain,
                              Append(cleaned_lines, line))

\* f.readlines() of an existing file
readlines(dir, file_path) ==
    (dir[CHOOSE i \in 1..Len(dir) : dir[i][1] = file_path])[2]

\* f"{file_path}.bak3"
backup_path(file_path, suffix) == file_path \o <<suffix>>

\* process_map_file of fix_foliage_simple.py: the directory it leaves
simple_process_map_file(dir, file_path) ==
    LET lines == readlines(dir, file_path)
    IN  open_w(open_w(dir, backup_path(file_path, ".bak3"), lines),
               file_path, simple_scan(lines, PyNone, <<>>))

\* the lines of a map: one field on each, indented, a comma at the end
MapLines ==
    { <<" ", "terrain:", " ", "Forest", ",", "\n">>,
      <<"terrain:", " ", "Forest", "\n">>,
      <<" ", "terrain:", " ", "Grass", ",", "\n">>,
      <<" ", "foliage_density:", " ", "Some(1.8)", ",", "\n">>,
      <<" ", "foliage_density:", " ", "Some(0.5)", ",", "\n">>,
      <<" ", "wall_type:", " ", "None", ",", "\n">> }

MapBodies == UNION {[1..n -> MapLines] : n \in 0..MaxMapLines}

MapPath == <<"map_1.ron">>

InitFoliage ==
    /\ BOX_I = BOX_I_init
    /\ palette = palette_init
    /\ call = [fn |-> "fix_foliage_simple.main", args |-> <<MapPath>>]
    /\ mesh = NoMesh
    /\ meshes = <<>>
    /\ files \in {<< <<MapPath, body>> >> : body \in MapBodies}
    /\ snap = [call |-> NoCall, mesh |-> NoMesh]
    /\ out = <<>>
    /\ pc = <<0, 0>>

Call_simple_process_map_file ==
    /\ call.fn = "fix_foliage_simple.main"
    /\ call' = [fn |-> "fix_foliage_simple.process_map_file",
                args |-> call.args]
    /\ files' = simple_process_map_file(files, call.args[1])
    /\ UNCHANGED <<BOX_I, palette, mesh, meshes, snap, out, pc>>

NextFoliage == Call_simple_process_map_file

SpecFoliage == InitFoliage /\ [][NextFoliage]_vars


(***************************************************************************)
(* scripts/clean_map_metadata.py and scripts/fix_foliage_density.py: runs  *)
(* of process_map_file on one map.  The content of a map is the sequence   *)
(* of the tiles its tile pattern finds, a tile being <<terrain type, lines *)
(* of the visual block>>; a run is two steps, the write of the backup and  *)
(* the write of the map.                                                   *)
(***************************************************************************)
MaxTiles == 2        \* tiles of a map: 0..MaxTiles
MaxRuns == 3         \* runs of the scripts on the map: 0..MaxRuns

\* clean_tile of clean_map_metadata.py:
\* full_tile.replace(visual_section, clean_tile_metadata(visual_section, terrain_type))
metadata_clean_tile(tile, order) ==
    <<tile[1], clean_tile_metadata(tile[2], tile[1], order)>>

\* clean_tile of fix_foliage_density.py
density_clean_tile(tile) ==
    IF tile[1] # "Forest"
    THEN <<tile[1], re_sub("foliage_density", tile[2])>>
    ELSE tile

\* re.sub(tile_pattern, clean_tile, content, flags=re.DOTALL): the contents
\* that clean_tile can leave, one for every order of walking the field set
RECURSIVE cleaned_contents(_, _)
cleaned_contents(script, content) ==
    IF content = <<>>
    THEN {<<>>}
    ELSE LET tile  == Head(content)
             heads == IF script = "clean_map_metadata"
                      THEN {metadata_clean_tile(tile, order) :
                               order \in set_orders(fields_to_remove(tile[1]),
                                                    tile[2])}
                      ELSE {density_clean_tile(tile)}
         IN  {<<h>> \o rest : h \in heads,
                              rest \in cleaned_contents(script, Tail(content))}

\* backup_path = f"{file_path}.bak" and f"{file_path}.bak2"
backup_suffix(script) ==
    IF script = "clean_map_metadata" THEN ".bak" ELSE ".bak2"

MapScripts == {"clean_map_metadata", "fix_foliage_density"}

TileLines ==
    { << << <<"foliage_density", "Some">> >>, TRUE>>,
      << << <<"grass_density", "Some">> >>, TRUE>>,
      << << <<"tree_type", "Some">> >>, TRUE>> }

MapTiles ==
    {<<terrain_type, visual>> :
        terrain_type \in {"Grass", "Forest"},
        visual \in UNION {[1..n -> TileLines] : n \in 0..2}}

MapContents == UNION {[1..n -> MapTiles] : n \in 0..MaxTiles}

InitBackup ==
    /\ BOX_I = BOX_I_init
    /\ palette = palette_init
    /\ call = [fn |-> "main", args |-> <<>>]
    /\ mesh = NoMesh
    /\ meshes = <<>>
    /\ files \in {<< <<MapPath, content>> >> : content \in MapContents}
    /\ snap = [call |-> NoCall, mesh |-> NoMesh]
    /\ out = <<>>
    /\ pc = <<0, 0>>

\* process_map_file up to the write of the backup: content is read, the
\* cleaned content computed, the backup written
process_map_file_backup ==
    /\ call.fn = "main"
    /\ pc[1] < MaxRuns
    /\ \E script \in MapScripts :
          LET content == readlines(files, MapPath)
          IN  /\ call' = [fn |-> "process_map_file",
                          args |-> <<script, MapPath>>]
              /\ \E cleaned_content \in cleaned_contents(script, content) :
                     out' = <<content, cleaned_content>>
              /\ files' = open_w(files,
                                 backup_path(MapPath, backup_suffix(script)),
                                 content)
    /\ UNCHANGED <<BOX_I, palette, mesh, meshes, snap, pc>>

\* the rest of process_map_file: the map is overwritten
process_map_file_write ==
    /\ call.fn = "process_map_file"
    /\ files' = open_w(files, call.args[2], out[2])
    /\ call' = [fn |-> "main", args |-> <<>>]
    /\ pc' = <<pc[1] + 1, pc[2]>>
    /\ UNCHANGED <<BOX_I, palette, mesh, meshes, snap, out>>

NextBackup ==
    \/ process_map_file_backup
    \/ process_map_file_write

SpecBackup == InitBackup /\ [][NextBackup]_vars


(***************************************************************************)
(* State machine of the builders called with segment counts below 3.       *)
(***************************************************************************)
SmallSegs == 0..2

NextSeg ==
    \/ Call_cylinder(Centres, Radii, SmallSegs)
    \/ Call_tapered_cylinder(Centres, Radii, SmallSegs)
    \/ Call_sphere_section(Centres, Radii, SmallSegs)
    \/ Call_ellipsoid(Centres, Radii, SmallSegs)
    \/ Call_cone_mesh(Centres, Radii, SmallSegs)

SpecSeg == Init /\ [][NextSeg]_vars

(***************************************************************************)
(* The text of a mesh block.  A number is written as <<mantissa, places>>: *)
(* the digits without the point, and the number of digits after the point. *)
(***************************************************************************)
\* mutant: the slice is one short, indices[i:i+11]
index_lines_short_slice(indices) ==
    [k \in 1..((Len(indices) + 11) \div 12) |->
        SubSeq(indices, 12 * (k - 1) + 1,
               IF 12 * k - 1 < Len(indices) THEN 12 * k - 1 ELSE Len(indices))]

\* emit, mesh_block: for i in range(0, len(indices), 12): indices[i:i+12]
index_lines(indices) ==
    [k \in 1..((Len(indices) + 11) \div 12) |->
        SubSeq(indices, 12 * (k - 1) + 1,
               IF 12 * k < Len(indices) THEN 12 * k ELSE Len(indices))]

\* emit_mesh, emit, mesh_block: "normals: None" if not normals, else
\* "normals: Some([...])" with one entry for each normal
normals_line(normals) ==
    IF normals = <<>> THEN <<"None">> ELSE <<"Some", normals>>

\* fmt_v3 of generate_characters.py, f"{x:.3f}" of a value in hundredths
fmt_v3(v) == [k \in 1..3 |-> <<v[k] * 10, 3>>]

\* mesh_block: for v in verts: lines.append(fmt_v3(v))
vertex_lines(verts) == [k \in 1..Len(verts) |-> fmt_v3(verts[k])]

\* the lines of a list of index lines joined again
RECURSIVE join_lines(_)
join_lines(lines) ==
    IF lines = <<>> THEN <<>> ELSE Head(lines) \o join_lines(Tail(lines))

\* repr of a float of gen_dire_wolves.py, the value in units of 1/10^7: the
\* shortest decimal, with at least one digit after the point.  The binary
\* product can only need more digits than the exact decimal counted here.
repr_places(x) ==
    IF x % 10000000 = 0 THEN 1
    ELSE 7 - (CHOOSE d \in 0..6 : x % (10 ^ d) = 0 /\ x % (10 ^ (d + 1)) # 0)

\* fv of gen_dire_wolves.py on a vertex: f"({v[0]}, {v[1]}, {v[2]})"
fv_vertex(v) ==
    [k \in 1..3 |-> <<v[k] \div (10 ^ (7 - repr_places(v[k]))), repr_places(v[k])>>]

\* fv of gen_dire_wolves.py on a normal of norm3: the components are ints
fv_normal(n) == [k \in 1..3 |-> <<n[k], 0>>]

(***************************************************************************)
(* Properties of the primitive builders.                                   *)
(***************************************************************************)
\* the Mesh invariant of one mesh block: triangles, and indices in range
IndexCountOk(m) == Len(m.indices) % 3 = 0
IndicesInRange(m) ==
    \A k \in 1..Len(m.indices) :
        /\ 0 <= m.indices[k]
        /\ m.indices[k] < Len(m.vertices)
MeshInvariant(m) == IndexCountOk(m) /\ IndicesInRange(m)

\* triangle t (0-based) of an index list starting at 0-based offset off
Tri(ix, off, t) == <<ix[off + 3 * t + 1], ix[off + 3 * t + 2], ix[off + 3 * t + 3]>>
TriSet(ix, off, t) == {ix[off + 3 * t + 1], ix[off + 3 * t + 2], ix[off + 3 * t + 3]}

\* C1: after every call of a primitive builder (cylinder, tapered_cylinder,
\* sphere_section, ellipsoid, cone_mesh, box_mesh) with any segment count
\* >= 1, the returned index list has a length divisible by 3 and every index
\* is >= 0 and smaller than the number of vertices of the same call.
C1_IndicesValid ==
    call.fn \in {"cylinder", "tapered_cylinder", "sphere_section",
                 "ellipsoid", "cone_mesh", "box_mesh"}
        => MeshInvariant(mesh)

C1_Witness ==
    /\ call.fn = "tapered_cylinder"
    /\ call.args[5] = 3
    /\ Len(mesh.indices) = 36
    /\ \E k \in 1..Len(mesh.indices) : mesh.indices[k] = Len(mesh.vertices) - 1

\* a point on the axis of a solid of revolution, and one off it
OnAxis(p, ctr, y) == p = <<ctr[1] * TrigScale, y * TrigScale, ctr[3] * TrigScale>>
OffAxis(p, ctr, y) ==
    /\ p[2] = y * TrigScale
    /\ <<p[1], p[3]>> # <<ctr[1] * TrigScale, ctr[3] * TrigScale>>

\* C3: cylinder(segments = N), N >= 3, returns 2N+2 vertices in the order
\* bottom-cap centre (index 0), bottom ring (1..N), top ring (N+1..2N),
\* top-cap centre (2N+1), and 12N indices: 3N of the bottom cap, then 6N of
\* the sides, then 3N of the top cap, every ring neighbour being (i+1) mod N;
\* for N = 3 that is 8 vertices and 36 indices.
C3_CylinderLayout ==
    (call.fn = "cylinder" /\ call.args[4] >= 3) =>
        LET ctr == call.args[1]
            height == call.args[3]
            N == call.args[4]
            vs == mesh.vertices
            ix == mesh.indices
            nxt(i) == (i + 1) % N
        IN  /\ Len(vs) = 2 * N + 2
            /\ Len(ix) = 12 * N
            /\ N = 3 => (Len(vs) = 8 /\ Len(ix) = 36)
            /\ OnAxis(vs[0 + 1], ctr, ctr[2])
            /\ OnAxis(vs[(2 * N + 1) + 1], ctr, ctr[2] + height)
            /\ \A i \in 0..(N - 1) :
                /\ OffAxis(vs[(1 + i) + 1], ctr, ctr[2])
                /\ OffAxis(vs[(N + 1 + i) + 1], ctr, ctr[2] + height)
                \* top ring vertex i stands above bottom ring vertex i
                /\ vs[(N + 1 + i) + 1][1] = vs[(1 + i) + 1][1]
                /\ vs[(N + 1 + i) + 1][3] = vs[(1 + i) + 1][3]
                \* bottom cap, sides, top cap
                /\ TriSet(ix, 0, i) = {0, i + 1, nxt(i) + 1}
                /\ TriSet(ix, 3 * N, 2 * i) \cup TriSet(ix, 3 * N, 2 * i + 1)
                       = {i + 1, nxt(i) + 1, i + 1 + N, nxt(i) + 1 + N}
                /\ TriSet(ix, 9 * N, i) = {2 * N + 1, i + 1 + N, nxt(i) + 1 + N}

C3_Witness ==
    /\ call.fn = "cylinder"
    /\ call.args[4] = 3
    /\ Len(mesh.vertices) = 8
    /\ Len(mesh.indices) = 36

\* C4: cone_mesh(segments = N), N >= 3, returns N+2 vertices in the order
\* base centre (0), base ring (1..N), apex (N+1), and 6N indices: N base
\* triangles made of index 0 and the ring neighbours i+1 and ((i+1) mod N)+1,
\* then N side triangles joining the same two ring vertices to the apex; for
\* N = 4 that is 6 vertices and 24 indices, and the cone of radius 1 and
\* height 2 at the origin has its ring at 90 degree steps in the XZ plane.
C4_ConeLayout ==
    (call.fn = "cone_mesh" /\ call.args[4] >= 3) =>
        LET ctr == call.args[1]
            radius == call.args[2]
            height == call.args[3]
            N == call.args[4]
            vs == mesh.vertices
            ix == mesh.indices
            nxt(i) == (i + 1) % N
        IN  /\ Len(vs) = N + 2
            /\ Len(ix) = 6 * N
            /\ N = 4 => (Len(vs) = 6 /\ Len(ix) = 3 * 8)
            /\ OnAxis(vs[0 + 1], ctr, ctr[2])
            /\ OnAxis(vs[(N + 1) + 1], ctr, ctr[2] + height)
            /\ \A i \in 0..(N - 1) :
                /\ OffAxis(vs[(1 + i) + 1], ctr, ctr[2])
                /\ ix[3 * i + 1] = 0
                /\ TriSet(ix, 0, i) = {0, i + 1, nxt(i) + 1}
                /\ TriSet(ix, 3 * N, i) = {i + 1, nxt(i) + 1, N + 1}
            /\ (ctr = <<0, 0, 0>> /\ radius = 1 /\ height = 2 /\ N = 4) =>
                   vs = << <<0, 0, 0>>,
                           <<TrigScale, 0, 0>>, <<0, 0, TrigScale>>,
                           <<-TrigScale, 0, 0>>, <<0, 0, -TrigScale>>,
                           <<0, 2 * TrigScale, 0>> >>

C4_Witness ==
    /\ call.fn = "cone_mesh"
    /\ call.args = << <<0, 0, 0>>, 1, 2, 4 >>
    /\ Len(mesh.vertices) = 6
    /\ Len(mesh.indices) = 24

\* the position the UV grid gives to row v, column h
GridPoint(ctr, rx, ry, rz, v, h, H, V) ==
    <<ctr[1] * TrigScale * TrigScale + rx * Sin3(Theta(v, V)) * Cos3(Angle(h, H)),
      ctr[2] * TrigScale * TrigScale + ry * Cos3(Theta(v, V)) * TrigScale,
      ctr[3] * TrigScale * TrigScale + rz * Sin3(Theta(v, V)) * Sin3(Angle(h, H))>>

GridLayout(m, ctr, rx, ry, rz, H, V) ==
    LET vs == m.vertices
        ix == m.indices
    IN  /\ Len(vs) = (V + 1) * H
        /\ Len(ix) = 6 * V * H
        /\ Len(ix) \div 3 = 2 * V * H
        /\ \A v \in 0..V, h \in 0..(H - 1) :
               vs[(v * H + h) + 1] = GridPoint(ctr, rx, ry, rz, v, h, H, V)
        /\ \A v \in 0..(V - 1), h \in 0..(H - 1) :
            LET q == v * H + h
                corners == {v * H + h, v * H + ((h + 1) % H),
                            (v + 1) * H + h, (v + 1) * H + ((h + 1) % H)}
            IN  /\ TriSet(ix, 6 * q, 0) \subseteq corners
                /\ TriSet(ix, 6 * q, 1) \subseteq corners
                /\ TriSet(ix, 6 * q, 0) \cup TriSet(ix, 6 * q, 1) = corners

\* C5: sphere_section(segments_h = H, segments_v = V), H, V >= 1, returns
\* (V+1)*H vertices, vertex (v,h) at index v*H+h, and 2*V*H triangles: for
\* every v < V and h < H one quad over rows v, v+1 and columns h, (h+1) mod H
\* split into two triangles; ellipsoid has the same counts and layout.
C5_SpheroidLayout ==
    /\ call.fn = "sphere_section" =>
           GridLayout(mesh, call.args[1], call.args[2], call.args[2],
                      call.args[2], call.args[3], call.args[4])
    /\ call.fn = "ellipsoid" =>
           GridLayout(mesh, call.args[1], call.args[2], call.args[3],
                      call.args[4], call.args[5], call.args[6])

C5_Witness ==
    /\ call.fn = "sphere_section"
    /\ call.args[3] = 4
    /\ call.args[4] = 3
    /\ Len(mesh.vertices) = 16
    /\ Len(mesh.indices) = 72

SameTopology(m1, m2) ==
    /\ m1.indices = m2.indices
    /\ Len(m1.vertices) = Len(m2.vertices)
    /\ \A k \in 1..Len(m1.vertices) : m1.vertices[k] = m2.vertices[k]

\* C6: for all segment counts and every centre, ellipsoid with rx = ry = rz = r
\* and sphere_section with radius r, the same centre and the same segment
\* counts return identical index lists, the same number of vertices, and
\* vertex k of one at the position of vertex k of the other.
C6_EllipsoidIsSphere ==
    /\ (/\ call.fn = "ellipsoid"
        /\ call.args[2] = call.args[3]
        /\ call.args[3] = call.args[4]) =>
           SameTopology(mesh,
               sphere_section(mesh.name, call.args[1][1], call.args[1][2],
                              call.args[1][3], call.args[2], mesh.color,
                              call.args[5], call.args[6]))
    /\ call.fn = "sphere_section" =>
           SameTopology(mesh,
               ellipsoid(mesh.name, call.args[1][1], call.args[1][2],
                         call.args[1][3], call.args[2], call.args[2],
                         call.args[2], mesh.color, call.args[3], call.args[4]))

C6_Witness ==
    /\ call.fn = "ellipsoid"
    /\ call.args[2] = 2
    /\ call.args[3] = 2
    /\ call.args[4] = 2
    /\ call.args[5] = 4
    /\ call.args[6] = 3
    /\ Len(mesh.vertices) = 16

(***************************************************************************)
(* Properties of the part functions, the composers and the writers.        *)
(***************************************************************************)
\* C2: every mesh block a part function of generate_characters.py returns
\* satisfies the Mesh invariant on its own buffers: the index count is a
\* multiple of 3 and every index is below the number of vertices of that
\* block, the second and later blocks of the multi-mesh parts included.
C2_PartMeshesValid ==
    call.fn \in PartFns
        => \A k \in 1..Len(meshes) : MeshInvariant(meshes[k])

MeshNames(mesh_list) == {mesh_list[k].name : k \in 1..Len(mesh_list)}
RidgeNames == {"spine_ridge_0", "spine_ridge_1"}
ScarNames == {"scar_face", "ear_notch", "scar_shoulder"}

\* C8: the list build_wolf_base returns holds both spine-ridge meshes when
\* body_scale > 1.0 and neither of them when body_scale <= 1.0, for every
\* bulk_scale, snout_length, ear_height and include_scars.
C8_SpineRidge ==
    call.fn = "build_wolf_base"
        => IF call.args[1] > ScaleOne
           THEN RidgeNames \subseteq MeshNames(meshes)
           ELSE RidgeNames \cap MeshNames(meshes) = {}

C8_Witness ==
    /\ call.fn = "build_wolf_base"
    /\ call.args[1] = 120
    /\ call.args[5] = FALSE
    /\ meshes[Len(meshes)].name = "spine_ridge_1"
    /\ meshes[Len(meshes) - 1].name = "spine_ridge_0"

\* the meshes of a list that are, or are not, scar meshes, in order
IsScar(m) == m.name \in ScarNames
NotScar(m) == m.name \notin ScarNames

\* C9: with include_scars = True build_wolf_base returns the meshes of the
\* call with include_scars = False and the same other arguments, identical
\* and in the same relative order, plus exactly the three meshes scar_face,
\* ear_notch and scar_shoulder.
C9_ScarsOnlyAdd ==
    (call.fn = "build_wolf_base" /\ call.args[5] = TRUE)
        => LET plain == build_wolf_base(DIRE_FUR, DIRE_DARK, DIRE_EYE,
                                        call.args[1], call.args[2],
                                        call.args[3], call.args[4], FALSE)
               scars == SelectSeq(meshes, IsScar)
           IN  /\ Len(meshes) = Len(plain) + 3
               /\ SelectSeq(meshes, NotScar) = plain
               /\ Len(scars) = 3
               /\ MeshNames(scars) = ScarNames
               /\ MeshNames(plain) \cap ScarNames = {}

C9_Witness ==
    /\ call.fn = "build_wolf_base"
    /\ call.args[5] = TRUE
    /\ call.args[1] = 120
    /\ Len(meshes) = 20
    /\ ScarNames \subseteq MeshNames(meshes)
    /\ RidgeNames \subseteq MeshNames(meshes)

\* the value of a top-level field of a file body, <<>> when it is missing
Field(body, key) ==
    IF \E j \in 1..Len(body) : body[j][1] = key
    THEN << (body[CHOOSE j \in 1..Len(body) : body[j][1] = key])[2] >>
    ELSE <<>>

\* C10: every creature file a generator has written holds a mesh_transforms
\* list with as many records as its meshes list, and every record is the
\* identity: translation (0,0,0), rotation (0,0,0), scale (1,1,1).
C10_TransformPerMesh ==
    \A i \in 1..Len(files) :
        LET body == files[i][2]
            ms == Field(body, "meshes")
            ts == Field(body, "mesh_transforms")
        IN  /\ ms # <<>>
            /\ ts # <<>>
            /\ Len(ts[1]) = Len(ms[1])
            /\ \A k \in 1..Len(ts[1]) : ts[1][k] = emit_transform

\* C11: emit and mesh_block write the index list in consecutive lines of at
\* most 12 indices, every line but the last holding exactly 12; the lines
\* joined give back the index list, and one vertex line is written for each
\* vertex.
C11_IndexLinesRoundTrip ==
    \A k \in 1..Len(meshes) :
        LET lines == index_lines(meshes[k].indices)
        IN  /\ join_lines(lines) = meshes[k].indices
            /\ \A j \in 1..Len(lines) :
                  /\ Len(lines[j]) >= 1
                  /\ Len(lines[j]) <= 12
                  /\ j < Len(lines) => Len(lines[j]) = 12
            /\ Len(vertex_lines(meshes[k].vertices)) = Len(meshes[k].vertices)

C11_Witness ==
    /\ call.fn = "wizard_hat"
    /\ Len(index_lines(meshes[1].indices)) = 3
    /\ Len(index_lines(meshes[2].indices)) = 2
    /\ index_lines(meshes[2].indices)[2] = <<2, 3, 4, 3, 0, 4>>
    /\ Len(vertex_lines(meshes[2].vertices)) = 5

\* the numbers of decimal places the spec allows a formatter to write
FixedPlaces == {3, 4}

\* the written forms of the coordinates of a list of vertices or normals
WrittenPlaces(lines) == {lines[k][j][2] : k \in 1..Len(lines), j \in 1..3}

\* C12: every vertex and normal coordinate a generator writes has a fixed
\* number of decimal places, 3 or 4, whatever its value.
C12_FixedDecimals ==
    \A i \in 1..Len(files) :
        LET ms == Field(files[i][2], "meshes")[1]
        IN  \A k \in 1..Len(ms) :
                /\ WrittenPlaces([v \in 1..Len(ms[k].vertices) |->
                                    fv_vertex(ms[k].vertices[v])]) \subseteq FixedPlaces
                /\ WrittenPlaces([n \in 1..Len(ms[k].normals) |->
                                    fv_normal(ms[k].normals[n])]) \subseteq FixedPlaces

\* C13: no builder raises an exception, whatever the segment counts, the
\* counts 0, 1 and 2 included: every call returns a mesh.
C13_NoException ==
    call.fn \in BuilderFns => mesh # ZeroDivisionError

\* C14: a mesh emitted with normals has as many normals as vertices and is
\* written with normals: Some([...]); a mesh emitted without normals, or
\* with an empty normal list, is written with normals: None.
C14_NormalPerVertex ==
    \A k \in 1..Len(meshes) :
        IF meshes[k].normals # <<>>
        THEN /\ Len(meshes[k].normals) = Len(meshes[k].vertices)
             /\ normals_line(meshes[k].normals) = <<"Some", meshes[k].normals>>
        ELSE normals_line(meshes[k].normals) = <<"None">>

C14_Witness ==
    /\ call.fn = "build_goblin"
    /\ \E k \in 1..Len(meshes) :
           /\ Len(meshes[k].normals) = 4
           /\ Len(meshes[k].vertices) = 4
    /\ meshes[1].normals = <<>>
    /\ \E k \in 1..Len(meshes) : Len(meshes[k].normals) = 3

Targets(args) ==
    IF args[1] = "" THEN {sheets_to_gen(args[4])[k] :
                            k \in 1..Len(sheets_to_gen(args[4]))}
    ELSE IF args[3] # <<>>
         THEN {<<args[3][1], type_spec(args[1], args[2])[2],
                 type_spec(args[1], args[2])[3], 1, 1>>}
         ELSE {type_spec(args[1], args[2])}

Created(name) == \E j \in 1..Len(out[1]) : out[1][j] = <<"created", name>>

\* C16: in a run of main, with or without --type, a sheet whose target PNG
\* exists is left as it is and not reported as generated when --force is
\* absent; it is regenerated with --force; a sheet whose target PNG is
\* missing is generated; the count printed is the number generated.
C16_ForceGuard ==
    call.fn = "main" =>
        LET before == call.args[6]
            force == call.args[5]
            T == Targets(call.args)
        IN  /\ \A t \in T :
                LET png == t[1] \o ".png"
                IN  IF exists(before, png) /\ ~force
                    THEN /\ Content(files, png) = Content(before, png)
                         /\ ~Created(t[1])
                    ELSE /\ Content(files, png) = <<sheet_image(t)>>
                         /\ Created(t[1])
            /\ call.args[1] = "" =>
                  out[2] = Cardinality({t \in T : Created(t[1])})

\* the names of the fields a line defines
LineFields(line) == {line[1][j][1] : j \in 1..Len(line[1])}

\* C17: after clean_tile_metadata(visual, T) no line that defines one of the
\* six terrain fields outside the allow-list of T is left, and the lines
\* that define only allow-listed or other fields are all there, unchanged
\* and in their order; for a terrain type that is not in the table the
\* allow-list is empty.
C17_OnlyAllowedFieldsRemain ==
    call.fn = "clean_tile_metadata" =>
        LET tile_text == call.args[1]
            removed == {all_terrain_fields[k] : k \in 1..6}
                       \ get_relevant_fields(call.args[2])
            stays(line) == line # Blank /\ LineFields(line) \cap removed = {}
        IN  /\ \A i \in 1..Len(out) :
                  out[i] # Blank => LineFields(out[i]) \cap removed = {}
            /\ SelectSeq(out, stays) = SelectSeq(tile_text, stays)

\* the files a run has written under its output directory
FilesUnder(dir_name, rows) ==
    {i \in 1..Len(files) :
        \E k \in 1..Len(rows) : files[i][1] = path_join(dir_name, rows[k][1])}

\* C18: a run of generate_characters.py writes exactly 54 files and a run
\* of gen_monsters2.py exactly 11, one for each creature: every write adds
\* a file, no two creatures of a run have the same filename, and at the end
\* of the run the directory holds 54 and 11 files.
C18_FileCounts ==
    /\ Cardinality(FilesUnder(OUT_characters, character_rows)) = pc[1]
    /\ Cardinality(FilesUnder(OUT_monsters, monster_rows)) = pc[2]
    /\ \A i, j \in 1..Len(character_rows) :
          character_rows[i][1] = character_rows[j][1] => i = j
    /\ \A i, j \in 1..Len(monster_rows) :
          monster_rows[i][1] = monster_rows[j][1] => i = j
    /\ pc[1] = Len(character_rows) =>
          Cardinality(FilesUnder(OUT_characters, character_rows)) = 54
    /\ pc[2] = Len(monster_rows) =>
          Cardinality(FilesUnder(OUT_monsters, monster_rows)) = 11

\* C19: tapered_cylinder(segments = N), N >= 3, returns 2N+2 vertices in the
\* order bottom ring (0..N-1), top ring (N..2N-1), bottom centre (2N), top
\* centre (2N+1), and 12N indices: 6N of the sides, then 3N of the bottom
\* cap, then 3N of the top cap.  The side triangles of quad i are
\* (b1, b2, t1) and (b2, t2, t1) with b1 = i, b2 = (i+1) mod N, t1 = b1 + N,
\* t2 = b2 + N: the side indices of cylinder, whose rings start at index 1,
\* each lowered by one.
C19_TaperedLayout ==
    (call.fn = "tapered_cylinder" /\ call.args[5] >= 3) =>
        LET ctr == call.args[1]
            radius_top == call.args[3]
            height == call.args[4]
            N == call.args[5]
            vs == mesh.vertices
            ix == mesh.indices
            nxt(i) == (i + 1) % N
        IN  /\ Len(vs) = 2 * N + 2
            /\ Len(ix) = 12 * N
            /\ OnAxis(vs[(2 * N) + 1], ctr, ctr[2])
            /\ OnAxis(vs[(2 * N + 1) + 1], ctr, ctr[2] + height)
            /\ \A i \in 0..(N - 1) :
                /\ OffAxis(vs[i + 1], ctr, ctr[2])
                /\ vs[(N + i) + 1][2] = (ctr[2] + height) * TrigScale
                /\ radius_top > 0 => OffAxis(vs[(N + i) + 1], ctr, ctr[2] + height)
                /\ radius_top = 0 => OnAxis(vs[(N + i) + 1], ctr, ctr[2] + height)
                \* sides, bottom cap, top cap
                /\ Tri(ix, 0, 2 * i) = <<i, nxt(i), i + N>>
                /\ Tri(ix, 0, 2 * i + 1) = <<nxt(i), nxt(i) + N, i + N>>
                /\ TriSet(ix, 6 * N, i) = {2 * N, nxt(i), i}
                /\ TriSet(ix, 9 * N, i) = {2 * N + 1, i + N, nxt(i) + N}
            /\ \A j \in 1..(6 * N) : ix[j] = cylinder_sides(N)[j] - 1

C19_Witness ==
    /\ call.fn = "tapered_cylinder"
    /\ call.args[5] = 3
    /\ call.args[3] = 0
    /\ Len(mesh.vertices) = 8
    /\ SubSeq(mesh.indices, 1, 6) = <<0, 1, 3, 1, 4, 3>>
    /\ SubSeq(mesh.indices, 19, 21) = <<6, 1, 0>>

\* the corners of a box that lie on the face where coordinate a has value v
FaceCorners(vs, a, v) == {k \in 0..(Len(vs) - 1) : vs[k + 1][a] = v}

\* each of the six faces of the box with corners vs is covered by exactly
\* two triangles of ix; the two use the four corners of the face and no other
\* and share two corners that are opposite on the face
BoxFacesCovered(vs, ix) ==
    \A a \in 1..3 : \A v \in {vs[k][a] : k \in 1..Len(vs)} :
        LET F == FaceCorners(vs, a, v)
            ts == {t \in 0..((Len(ix) \div 3) - 1) : TriSet(ix, 0, t) \subseteq F}
        IN  /\ Cardinality(F) = 4
            /\ Cardinality(ts) = 2
            /\ \E t1, t2 \in ts :
                  LET d == TriSet(ix, 0, t1) \cap TriSet(ix, 0, t2)
                  IN  /\ t1 # t2
                      /\ Cardinality(TriSet(ix, 0, t1)) = 3
                      /\ Cardinality(TriSet(ix, 0, t2)) = 3
                      /\ TriSet(ix, 0, t1) \cup TriSet(ix, 0, t2) = F
                      /\ Cardinality(d) = 2
                      /\ \A p, q \in d : p # q =>
                            \A b \in (1..3) \ {a} : vs[p + 1][b] # vs[q + 1][b]

\* C20: the index table of a box, BOX_I of gen_dire_wolves.py and
\* gen_monsters2.py and idx of box() of generate_characters.py, has 36
\* indices, 12 triangles over the 8 corners; each of the 6 faces is covered
\* by exactly two triangles that use only the corners of that face and share
\* a diagonal of it.  A box of zero extent along an axis is emitted all the
\* same, with its 8 vertices and the 36 indices.
C20_BoxFaces ==
    /\ Len(BOX_I) = 36
    /\ BoxFacesCovered(box_v(0, 0, 0, 1, 1, 1), BOX_I)
    /\ Len(box(0, 0, 0, 1, 1, 1)[2]) = 36
    /\ BoxFacesCovered(box(0, 0, 0, 1, 1, 1)[1], box(0, 0, 0, 1, 1, 1)[2])
    /\ call.fn = "box_mesh" =>
          /\ Len(mesh.vertices) = 8
          /\ Len(mesh.indices) = 36
          /\ {mesh.indices[j] : j \in 1..36} = 0..7
          /\ mesh.vertices = box_v(call.args[1], call.args[2], call.args[3],
                                   call.args[4], call.args[5], call.args[6])
          /\ BoxFacesCovered(box_v(0, 0, 0, 1, 1, 1), mesh.indices)
          /\ call.args[1] # call.args[4] =>
                BoxFacesCovered(mesh.vertices, mesh.indices)

\* a box of zero extent along x has been emitted
C20_Witness ==
    /\ call.fn = "box_mesh"
    /\ call.args[1] = call.args[4]
    /\ Len(mesh.vertices) = 8
    /\ mesh.vertices[1] = mesh.vertices[2]
    /\ Len(mesh.indices) = 36

\* the two ring positions a cap triangle visits after the cap centre
RingStep(t, first) == <<t[2] - first, t[3] - first>>

\* C21: in cylinder and in tapered_cylinder, at every ring position i the
\* bottom-cap triangle and the top-cap triangle start at their cap centre
\* and walk the ring in opposite directions: one goes from i to (i+1) mod N,
\* the other from (i+1) mod N to i.
C21_CapsOpposite ==
    /\ call.fn = "cylinder" =>
        LET N == call.args[4]
            ix == mesh.indices
        IN  \A i \in 0..(N - 1) :
                /\ Tri(ix, 0, i)[1] = 0
                /\ Tri(ix, 9 * N, i)[1] = 2 * N + 1
                /\ {RingStep(Tri(ix, 0, i), 1), RingStep(Tri(ix, 9 * N, i), N + 1)}
                       = {<<i, (i + 1) % N>>, <<(i + 1) % N, i>>}
    /\ call.fn = "tapered_cylinder" =>
        LET N == call.args[5]
            ix == mesh.indices
        IN  \A i \in 0..(N - 1) :
                /\ Tri(ix, 6 * N, i)[1] = 2 * N
                /\ Tri(ix, 9 * N, i)[1] = 2 * N + 1
                /\ {RingStep(Tri(ix, 6 * N, i), 0), RingStep(Tri(ix, 9 * N, i), N)}
                       = {<<i, (i + 1) % N>>, <<(i + 1) % N, i>>}

C21_Witness ==
    /\ call.fn = "tapered_cylinder"
    /\ call.args[5] = 4
    /\ Tri(mesh.indices, 24, 3) = <<8, 0, 3>>
    /\ Tri(mesh.indices, 36, 3) = <<9, 7, 4>>

\* the pole rows of an H x (V+1) grid and the triangles that lie in them
PoleRows(m, H, V) ==
    LET vs == m.vertices
        ix == m.indices
        row(i) == i \div H
        on_pole(i) == row(i) \in {0, V}
        points(t) == {vs[i + 1] : i \in TriSet(ix, 0, t)}
        pole_indices(t) == {i \in TriSet(ix, 0, t) : on_pole(i)}
        degenerate(t) == Cardinality(points(t)) < 3
    IN  /\ Len(vs) = H * (V + 1)
        /\ Len(ix) = 6 * V * H
        \* row 0 and row V are H vertices on one point each
        /\ \A h \in 0..(H - 1) :
              /\ vs[h + 1] = vs[1]
              /\ vs[V * H + h + 1] = vs[V * H + 1]
        /\ vs[1] # vs[V * H + 1]
        \* no fan: a polar quad gives one triangle with two indices of the
        \* pole row and one triangle with a single index of it
        /\ \A v \in {0, V - 1} : \A h \in 0..(H - 1) :
              LET q == v * H + h
              IN  {Cardinality(pole_indices(2 * q)),
                   Cardinality(pole_indices(2 * q + 1))} = {1, 2}
        /\ \A t \in 0..(2 * V * H - 1) :
              /\ degenerate(t) <=> Cardinality(pole_indices(t)) = 2
              /\ ~degenerate(t) => Cardinality(points(t)) = 3
        /\ Cardinality({t \in 0..(2 * V * H - 1) : degenerate(t)}) = 2 * H

\* C22: sphere_section and ellipsoid with H >= 3 and V >= 2 sample each pole
\* as a full row of H vertices on one point (row 0 and row V) and emit no
\* fan: each polar quad yields one triangle with two distinct indices of the
\* pole row, of zero area, and one with a single index of it, so 2*H of the
\* 2*V*H triangles are degenerate and the others join three different
\* points.
C22_PoleRows ==
    /\ (call.fn = "sphere_section" /\ call.args[3] >= 3 /\ call.args[4] >= 2) =>
          PoleRows(mesh, call.args[3], call.args[4])
    /\ (call.fn = "ellipsoid" /\ call.args[5] >= 3 /\ call.args[6] >= 2) =>
          PoleRows(mesh, call.args[5], call.args[6])

C22_Witness ==
    /\ call.fn = "sphere_section"
    /\ call.args[3] = 3
    /\ call.args[4] = 2
    /\ Len(mesh.vertices) = 9
    /\ mesh.vertices[7] = mesh.vertices[9]
    /\ Tri(mesh.indices, 0, 0) = <<0, 1, 3>>
    /\ mesh.vertices[1] = mesh.vertices[2]

\* the names of a mesh list, in its order
NameSeq(mesh_list) == [k \in 1..Len(mesh_list) |-> mesh_list[k].name]

BaseOrder ==
    <<"body", "chest", "head", "snout", "nostrils", "left_ear", "right_ear",
      "left_eye", "right_eye", "front_left", "front_right", "hind_left",
      "hind_right", "tail", "tail_tip">>
ScarOrder == <<"scar_face", "ear_notch", "scar_shoulder">>
RidgeOrder == <<"spine_ridge_0", "spine_ridge_1">>

\* C23: build_wolf_base returns the 15 base meshes body .. tail_tip in
\* their fixed order, then the three scar meshes when include_scars, then
\* the two spine-ridge meshes when body_scale > 1.0; write_creature writes
\* the mesh records in the order of the list it is given, and as many
\* transforms as meshes, so that transform k belongs to mesh k.
C23_MeshOrder ==
    /\ call.fn = "build_wolf_base" =>
          NameSeq(meshes) =
              BaseOrder
              \o (IF call.args[5] THEN ScarOrder ELSE <<>>)
              \o (IF call.args[1] > ScaleOne THEN RidgeOrder ELSE <<>>)
    /\ call.fn = "write_creature" =>
          \E i \in 1..Len(files) :
              /\ files[i][1] = call.args[1]
              /\ Field(files[i][2], "meshes") = <<meshes>>
              /\ Len(Field(files[i][2], "mesh_transforms")[1]) = Len(meshes)

C23_Witness ==
    /\ call.fn = "write_creature"
    /\ Len(meshes) = 20
    /\ Field(files[1][2], "meshes")[1][16].name = "scar_face"
    /\ Field(files[1][2], "meshes")[1][19].name = "spine_ridge_0"
    /\ Len(Field(files[1][2], "mesh_transforms")[1]) = 20

\* a line that holds a foliage_density field
IsFoliageLine(line) == \E k \in 1..Len(line) : line[k] = "foliage_density:"

\* a line that declares a terrain
IsTerrainLine(line) == \E k \in 1..Len(line) : line[k] = "terrain:"

\* the terrain of the most recent declaration at or above line k
LastTerrain(lines, k) ==
    IF \E j \in 1..k : IsTerrainLine(lines[j])
    THEN LET j == CHOOSE j \in 1..k :
                      /\ IsTerrainLine(lines[j])
                      /\ \A i \in (j + 1)..k : ~IsTerrainLine(lines[i])
         IN  CHOOSE t \in {"Forest", "Grass"} :
                 \E i \in 1..Len(lines[j]) : lines[j][i] = t
    ELSE "undeclared"

\* the lines of a map without the foliage_density lines outside Forest
KeptLines(lines) ==
    LET kept[k \in 0..Len(lines)] ==
            IF k = 0 THEN <<>>
            ELSE IF IsFoliageLine(lines[k]) /\ LastTerrain(lines, k) # "Forest"
                 THEN kept[k - 1]
                 ELSE Append(kept[k - 1], lines[k])
    IN  kept[Len(lines)]

DirEdges(ix, i) ==
    LET t == Tri(ix, 0, i)
    IN  {<<t[1], t[2]>>, <<t[2], t[3]>>, <<t[3], t[1]>>}

\* the triangles of an index list that traverse a -> b
Along(ix, a, b) == {i \in 0..((Len(ix) \div 3) - 1) : <<a, b>> \in DirEdges(ix, i)}

\* C25: the surface of cylinder with N >= 3 segments is consistently
\* oriented: no ordered pair of indices (a, b) is a directed edge of two
\* different triangles.
C25_CylinderOriented ==
    (call.fn = "cylinder" /\ call.args[4] >= 3) =>
        \A a, b \in 0..(Len(mesh.vertices) - 1) :
            Cardinality(Along(mesh.indices, a, b)) <= 1

\* C26: the surfaces of tapered_cylinder and cone_mesh with N >= 3 segments
\* are closed and consistently oriented: every edge between two indices
\* that some triangle has is an edge of exactly two triangles, which
\* traverse it in opposite directions.
C26_ClosedOriented ==
    ((call.fn = "tapered_cylinder" /\ call.args[5] >= 3)
        \/ (call.fn = "cone_mesh" /\ call.args[4] >= 3)) =>
        \A a, b \in 0..(Len(mesh.vertices) - 1) :
            Along(mesh.indices, a, b) # {} =>
                /\ Cardinality(Along(mesh.indices, a, b)) = 1
                /\ Cardinality(Along(mesh.indices, b, a)) = 1

C26_Witness ==
    /\ call.fn = "cone_mesh"
    /\ call.args[4] = 3
    /\ Len(mesh.indices) = 18
    /\ Along(mesh.indices, 2, 1) = {0}
    /\ Along(mesh.indices, 1, 2) = {3}
    /\ Cardinality(Along(mesh.indices, 4, 1)) = 1
    /\ Cardinality(Along(mesh.indices, 1, 4)) = 1

\* the triangles of a mesh as triples of corner positions, a triple being
\* the same triangle as its cyclic rotations
OrientedTris(vs, ix) ==
    { LET t == Tri(ix, 0, i)
          p == <<vs[t[1] + 1], vs[t[2] + 1], vs[t[3] + 1]>>
      IN  {<<p[1], p[2], p[3]>>, <<p[2], p[3], p[1]>>, <<p[3], p[1], p[2]>>} :
      i \in 0..((Len(ix) \div 3) - 1) }

\* C27: for x0 < x1, y0 < y1, z0 < z1 the box of gen_monsters2.py and
\* gen_dire_wolves.py (box_v with BOX_I) and box() of generate_characters.py
\* give the same 12 oriented triangles: the same triples of corner
\* positions, up to cyclic rotation of a triple.
C27_SameBox ==
    (/\ call.fn = "box_mesh"
     /\ call.args[1] < call.args[4]
     /\ call.args[2] < call.args[5]
     /\ call.args[3] < call.args[6]) =>
        LET b == box(call.args[1], call.args[2], call.args[3],
                     call.args[4], call.args[5], call.args[6])
        IN  OrientedTris(mesh.vertices, mesh.indices) = OrientedTris(b[1], b[2])

\* a flat quad facing z whose four vertices are, in this order, its
\* bottom-left, bottom-right, top-left and top-right corner
IsCornerQuad(m) ==
    /\ Len(m.vertices) = 4
    /\ Len(m.indices) = 6
    /\ LET v == m.vertices
       IN  /\ v[1][1] = v[3][1] /\ v[2][1] = v[4][1] /\ v[1][1] < v[2][1]
           /\ v[1][2] = v[2][2] /\ v[3][2] = v[4][2] /\ v[1][2] < v[3][2]
           /\ \A k \in 2..4 : v[k][3] = v[1][3]

\* twice the signed area, seen from +z, of triangle t of the index list
Area2(vs, t) ==
    LET a == vs[t[1] + 1]
        b == vs[t[2] + 1]
        c == vs[t[3] + 1]
    IN  (b[1] - a[1]) * (c[2] - a[2]) - (c[1] - a[1]) * (b[2] - a[2])

\* C28: a flat quad whose corners are given as bottom-left, bottom-right,
\* top-left, top-right is split into two triangles with the same winding
\* that cover the quad without overlap (they share a diagonal and nothing
\* else), by quad_i of gen_monsters2.py and gen_dire_wolves.py and by
\* quad_flat of generate_characters.py.
C28_QuadSplit ==
    \A k \in 1..Len(meshes) :
        IsCornerQuad(meshes[k]) =>
            LET vs == meshes[k].vertices
                ix == meshes[k].indices
            IN  /\ Area2(vs, Tri(ix, 0, 0)) * Area2(vs, Tri(ix, 0, 1)) > 0
                /\ TriSet(ix, 0, 0) \cup TriSet(ix, 0, 1) = 0..3
                /\ TriSet(ix, 0, 0) \cap TriSet(ix, 0, 1) \in {{0, 3}, {1, 2}}

\* C29: the meshes of a generated creature or character have pairwise
\* different names.
C29_DistinctNames ==
    call.fn \in {"build_goblin", "build_lich", "female_halfelf_rogue",
                 "write_ron_characters"} =>
        \A i, j \in 1..Len(meshes) :
            i # j => meshes[i].name # meshes[j].name

\* a file of this name is in the directory
HasFile(dir, name) == \E i \in 1..Len(dir) : dir[i][1] = name

\* what a step does to the backup file of a script: a backup that exists
\* stays as it is, a new one holds what the map held
BackupKept(script) ==
    LET b == backup_path(MapPath, backup_suffix(script))
    IN  HasFile(files', b) =>
            IF HasFile(files, b)
            THEN readlines(files', b) = readlines(files, b)
            ELSE readlines(files', b) = readlines(files, MapPath)

\* C30: running the map cleaner again never loses the original map:
\* process_map_file writes the backup before it overwrites the map, and
\* after any number of runs the backup (.bak of clean_map_metadata, .bak2 of
\* fix_foliage_density) still holds what the map held before the first run:
\* the first run writes it from the map and no later step changes it.
C30_BackupKeepsOriginal ==
    [][ /\ BackupKept("clean_map_metadata")
        /\ BackupKept("fix_foliage_density")
        /\ readlines(files', MapPath) # readlines(files, MapPath) =>
              \E script \in MapScripts :
                  /\ HasFile(files, backup_path(MapPath, backup_suffix(script)))
                  /\ readlines(files, backup_path(MapPath, backup_suffix(script)))
                        = readlines(files, MapPath) ]_vars

====
